---- MODULE Spec2Model ----
(***************************************************************************)
(* A model of the Transform phase of the e-commerce ETL pipeline:          *)
(* the extractors' validation, the four dimension builders, the two fact   *)
(* builders and TransformOrchestrator.run_all, which sequences them.       *)
(*                                                                         *)
(* Conventions.                                                            *)
(*   - A nullable cell is a tuple: <<>> is null (NaN / NaT / None) and     *)
(*     <<v>> holds v.                                                      *)
(*   - A data frame is [cols |-> <<column names>>, rows |-> <<records>>].  *)
(*   - A calendar day is its number of days since 1970-01-01; a timestamp  *)
(*     is its number of hours since 1970-01-01 00:00.                      *)
(*   - Money is in cents (integers).                                       *)
(*   - created_at / updated_at hold the wall clock and are left out.       *)
(***************************************************************************)
EXTENDS Integers, Sequences, FiniteSets, TLC

VARIABLES
    src,         \* the source extracts (CSV files) and the configuration
    pc,          \* position of run_all
    dimensions,  \* TransformOrchestrator.dimensions
    facts,       \* TransformOrchestrator.facts
    started,     \* the builders started so far, in order (log lines [k/6])
    result,      \* what run_all returned (null until it returns)
    err,         \* the error run_all raised (null if none)
    arg,         \* argument of a function under test
    ret,         \* its result
    previous     \* what the earlier runs of the pipeline returned, in order

vars == <<src, pc, dimensions, facts, started, result, err, arg, ret, previous>>

----------------------------------------------------------------------------
(* Bounds of the model *)

MaxRows == 2
MaxSpan == 3

----------------------------------------------------------------------------
(* Nullable cells and small helpers *)

Null == <<>>
Some(v) == <<v>>
IsNull(x) == x = <<>>
NotNull(x) == x # <<>>
Val(x) == x[1]

Max2(a, b) == IF a >= b THEN a ELSE b

SeqsUpTo(S, lo, hi) == UNION {[1..n -> S] : n \in lo..hi}

Range(s) == {s[i] : i \in 1..Len(s)}

EmptyMap == [k \in {} |-> 0]
Put(f, k, v) == [x \in (DOMAIN f) \cup {k} |-> IF x = k THEN v ELSE f[x]]

RECURSIVE SumSeq(_)
SumSeq(s) == IF s = <<>> THEN 0 ELSE Head(s) + SumSeq(Tail(s))

RECURSIVE FlattenSeq(_)
FlattenSeq(ss) == IF ss = <<>> THEN <<>> ELSE Head(ss) \o FlattenSeq(Tail(ss))

\* pandas.Series.unique / drop of repeated values: first appearances, in order
RECURSIVE UniqueSeq(_)
UniqueSeq(s) ==
    IF s = <<>> THEN <<>>
    ELSE LET r == UniqueSeq(SubSeq(s, 1, Len(s) - 1))
             x == s[Len(s)]
         IN IF x \in Range(r) THEN r ELSE Append(r, x)

----------------------------------------------------------------------------
(* Calendar arithmetic of datetime / pandas / polars *)

\* datetime.strptime(s, '%Y-%m-%d') followed by the date's ordinal
DaysFromCivil(y, m, d) ==
    LET yy  == IF m <= 2 THEN y - 1 ELSE y
        era == yy \div 400
        yoe == yy - era * 400
        mp  == IF m > 2 THEN m - 3 ELSE m + 9
        doy == (153 * mp + 2) \div 5 + d - 1
        doe == yoe * 365 + yoe \div 4 - yoe \div 100 + doy
    IN era * 146097 + doe - 719468

\* the calendar date [y, m, d] of a day ordinal
CivilFromDays(z) ==
    LET zz  == z + 719468
        era == zz \div 146097
        doe == zz - era * 146097
        yoe == (doe - doe \div 1460 + doe \div 36524 - doe \div 146096) \div 365
        doy == doe - (365 * yoe + yoe \div 4 - yoe \div 100)
        mp  == (5 * doy + 2) \div 153
        d   == doy - (153 * mp + 2) \div 5 + 1
        m   == IF mp < 10 THEN mp + 3 ELSE mp - 9
        y   == yoe + era * 400
    IN [y |-> IF m <= 2 THEN y + 1 ELSE y, m |-> m, d |-> d]

\* Series.dt.date of a timestamp: the day that holds it
DateOf(ts) == ts \div 24

\* Timedelta.days rounded towards zero
TimedeltaDaysTruncated(later, earlier) ==
    IF later >= earlier THEN (later - earlier) \div 24
    ELSE 0 - ((earlier - later) \div 24)

\* Timedelta.days: whole days, rounded towards minus infinity
TimedeltaDays(later, earlier) == (later - earlier) \div 24

\* Period('M') of a timestamp, as a count of months
MonthPeriod(ts) == LET c == CivilFromDays(DateOf(ts)) IN c.y * 12 + (c.m - 1)

\* Period.to_timestamp(): the first day of the month
PeriodToDay(p) == DaysFromCivil(p \div 12, (p % 12) + 1, 1)

\* the digits of n, zero-padded to width w ('%Y', '%m', '%d')
RECURSIVE Digits(_, _)
Digits(n, w) == IF w = 0 THEN <<>> ELSE Append(Digits(n \div 10, w - 1), n % 10)

\* strftime('%Y%m%d'): four, two and two digits
StrftimeYmd(day) ==
    LET c == CivilFromDays(day) IN Digits(c.y, 4) \o Digits(c.m, 2) \o Digits(c.d, 2)

\* cast of a digit string to an integer
RECURSIVE CastInt(_)
CastInt(ds) == IF ds = <<>> THEN 0 ELSE CastInt(SubSeq(ds, 1, Len(ds) - 1)) * 10 + ds[Len(ds)]

\* polars dt.weekday(): 1 = Monday .. 7 = Sunday (1970-01-01 was a Thursday)
Weekday(day) == ((day + 3) % 7) + 1

----------------------------------------------------------------------------
(* Exact fractions, for pandas' float columns (mean, frequency, CLV) *)

RECURSIVE GCD(_, _)
GCD(a, b) == IF b = 0 THEN a ELSE GCD(b, a % b)

Abs(x) == IF x < 0 THEN -x ELSE x

\* the fraction n/d (d > 0) in lowest terms
Rat(n, d) == LET g == GCD(Abs(n), d) IN [n |-> n \div g, d |-> d \div g]

RatMul(a, b) ==
    LET g1 == GCD(Abs(a.n), b.d)
        g2 == GCD(Abs(b.n), a.d)
    IN [n |-> (a.n \div g1) * (b.n \div g2), d |-> (a.d \div g2) * (b.d \div g1)]

\* Series.round(2) of an amount held in cents: the nearest cent, ties to even
RoundCents(r) ==
    LET q    == r.n \div r.d
        rem2 == 2 * (r.n - q * r.d)
    IN IF rem2 < r.d THEN q
       ELSE IF rem2 > r.d THEN q + 1
       ELSE IF q % 2 = 0 THEN q ELSE q + 1

----------------------------------------------------------------------------
(* Extractors: pd.read_csv followed by _validate_data.  Each returns       *)
(* [ok |-> whether extract() returned, df |-> the rows it returned].       *)

AnyNull(rows, field) == \E i \in 1..Len(rows) : IsNull(rows[i][field])

\* OrdersExtract whose validation looks at order_id only
OrdersExtractOrderIdOnly(s) ==
    [ok |-> ~AnyNull(s.orders, "order_id"), df |-> s.orders]

OrdersExtract(s) ==
    [ok |-> ~(AnyNull(s.orders, "order_id") \/ AnyNull(s.orders, "customer_id")),
     df |-> s.orders]

OrderItemsExtract(s) ==
    LET WithTotal(r) == [order_id |-> r.order_id, product_id |-> r.product_id,
                         seller_id |-> r.seller_id, price |-> r.price,
                         freight_value |-> r.freight_value,
                         item_total |-> r.price + r.freight_value]
    IN [ok |-> ~(AnyNull(s.items, "order_id") \/ AnyNull(s.items, "product_id")),
        df |-> [i \in 1..Len(s.items) |-> WithTotal(s.items[i])]]

\* extract() joins the distinct payment types into a log line before it
\* validates: that join raises on a null payment type
PaymentsExtract(s) ==
    [ok |-> ~(AnyNull(s.payments, "payment_type") \/ AnyNull(s.payments, "order_id")),
     df |-> s.payments]

ReviewsExtract(s) ==
    [ok |-> ~(AnyNull(s.reviews, "review_id") \/ AnyNull(s.reviews, "order_id")),
     df |-> s.reviews]

\* _validate_data divides by the number of records before it checks nulls
CustomersExtract(s) ==
    [ok |-> Len(s.customers) > 0
            /\ ~(AnyNull(s.customers, "customer_id")
                    \/ AnyNull(s.customers, "customer_unique_id")),
     df |-> s.customers]

\* ProductsExtract that keeps the first row of each product
ProductsExtractDeduplicated(s) ==
    [ok |-> ~AnyNull(s.products, "product_id"), df |-> UniqueSeq(s.products)]

ProductsExtract(s) ==
    [ok |-> ~AnyNull(s.products, "product_id"), df |-> s.products]

----------------------------------------------------------------------------
(* DateDimensionBuilder (the name and week columns month_name, day_name    *)
(* and week are not part of this model)                                    *)

\* self.holidays
Holidays ==
    {DaysFromCivil(h[1], h[2], h[3]) : h \in {
     <<2016, 1, 1>>, <<2016, 2, 8>>, <<2016, 2, 9>>, <<2016, 3, 25>>, <<2016, 4, 21>>, <<2016, 5, 1>>, <<2016, 9, 7>>, <<2016, 10, 12>>, <<2016, 11, 2>>, <<2016, 11, 15>>, <<2016, 12, 25>>,
     <<2017, 1, 1>>, <<2017, 2, 27>>, <<2017, 2, 28>>, <<2017, 4, 14>>, <<2017, 4, 21>>, <<2017, 5, 1>>, <<2017, 9, 7>>, <<2017, 10, 12>>, <<2017, 11, 2>>, <<2017, 11, 15>>, <<2017, 12, 25>>,
     <<2018, 1, 1>>, <<2018, 2, 12>>, <<2018, 2, 13>>, <<2018, 3, 30>>, <<2018, 4, 21>>, <<2018, 5, 1>>, <<2018, 9, 7>>, <<2018, 10, 12>>, <<2018, 11, 2>>, <<2018, 11, 15>>, <<2018, 12, 25>>}}

\* DateRange without its last day (a range closed on the left only)
DateRangeExclusive(start, end) == [i \in 1..Max2(end - start, 0) |-> start + (i - 1)]

\* pl.date_range(start, end, '1d', eager=True): start, start + 1d, ... up to end
DateRange(start, end) == [i \in 1..Max2(end - start + 1, 0) |-> start + (i - 1)]

\* the date_key column: strftime('%Y%m%d') cast to Int32
DateKeyOf(day) == CastInt(StrftimeYmd(day))

DateDimCols ==
    <<"date_key", "full_date", "year", "quarter", "month", "day_of_month",
      "day_of_week", "is_weekend", "is_holiday", "fiscal_year", "fiscal_quarter">>

DateDimRow(day) ==
    LET c == CivilFromDays(day) IN
    [date_key |-> DateKeyOf(day), full_date |-> day,
     year |-> c.y, quarter |-> ((c.m - 1) \div 3) + 1, month |-> c.m,
     day_of_month |-> c.d, day_of_week |-> Weekday(day),
     is_weekend |-> Weekday(day) >= 6, is_holiday |-> day \in Holidays,
     fiscal_year |-> c.y, fiscal_quarter |-> ((c.m - 1) \div 3) + 1]

DateDimensionBuild(s) ==
    LET start == DaysFromCivil(s.cfg.start_date.y, s.cfg.start_date.m, s.cfg.start_date.d)
        end   == DaysFromCivil(s.cfg.end_date.y, s.cfg.end_date.m, s.cfg.end_date.d)
        days  == DateRange(start, end)
    IN [ok |-> TRUE,
        df |-> [cols |-> DateDimCols,
                rows |-> [i \in 1..Len(days) |-> DateDimRow(days[i])]]]

----------------------------------------------------------------------------
(* ProductDimensionBuilder (the measurement columns weight, length,       *)
(* height, width, volume and photos are not part of this model)            *)

\* self.category_translation, in the order of the dictionary
CategoryTranslation ==
    <<<<"beleza_saude", "health_beauty">>,
      <<"informatica_acessorios", "computers_accessories">>,
      <<"automotivo", "automotive">>,
      <<"cama_mesa_banho", "bed_bath_table">>,
      <<"moveis_decoracao", "furniture_decor">>,
      <<"esporte_lazer", "sports_leisure">>,
      <<"perfumaria", "perfumery">>,
      <<"utilidades_domesticas", "housewares">>,
      <<"telefonia", "telephony">>,
      <<"relogios_presentes", "watches_gifts">>,
      <<"alimentos_bebidas", "food_drinks">>,
      <<"bebes", "baby">>,
      <<"papelaria", "stationery">>,
      <<"tablets_impressao_imagem", "tablets_printing_image">>,
      <<"brinquedos", "toys">>,
      <<"telefonia_fixa", "fixed_telephony">>,
      <<"ferramentas_jardim", "garden_tools">>,
      <<"fashion_bolsas_e_acessorios", "fashion_bags_accessories">>,
      <<"eletrônicos", "electronics">>,
      <<"eletrodomesticos", "home_appliances">>,
      <<"livros_interesse_geral", "books_general_interest">>,
      <<"construcao_ferramentas_construcao", "construction_tools_construction">>,
      <<"casa_construcao", "home_construction">>,
      <<"instrumentos_musicais", "musical_instruments">>,
      <<"eletrodomesticos_2", "home_appliances_2">>,
      <<"livros_tecnicos", "books_technical">>,
      <<"cool_stuff", "cool_stuff">>,
      <<"malas_acessorios", "luggage_accessories">>,
      <<"climatizacao", "air_conditioning">>,
      <<"construcao_ferramentas_iluminacao", "construction_tools_lighting">>,
      <<"artigos_de_festas", "party_supplies">>,
      <<"construcao_ferramentas_seguranca", "construction_tools_safety">>,
      <<"industria_comercio_e_negocios", "industry_commerce_business">>,
      <<"livros_importados", "books_imported">>,
      <<"pcs", "computers">>,
      <<"artigos_de_natal", "christmas_articles">>,
      <<"fashion_calcados", "fashion_shoes">>,
      <<"flores", "flowers">>,
      <<"artes_e_artesanato", "arts_crafts">>,
      <<"fraldas_higiene", "diapers_hygiene">>,
      <<"fashion_underwear_e_moda_praia", "fashion_underwear_beach">>,
      <<"pet_shop", "pet_shop">>,
      <<"moveis_sala", "living_room_furniture">>,
      <<"construcao_ferramentas_jardim", "construction_tools_garden">>,
      <<"fashion_esporte", "fashion_sports">>,
      <<"sinalizacao_e_seguranca", "signaling_security">>,
      <<"la_cuisine", "la_cuisine">>,
      <<"dvds_blu_ray", "dvds_blu_ray">>,
      <<"fashion_roupa_masculina", "fashion_male_clothing">>,
      <<"portateis_casa_forno_e_cafe", "portable_kitchen_food_processor">>,
      <<"cds_dvds_musicais", "cds_dvds_musicals">>,
      <<"consoles_games", "consoles_games">>,
      <<"audio", "audio">>,
      <<"fashion_roupa_feminina", "fashion_female_clothing">>,
      <<"seguros_e_servicos", "insurance_services">>,
      <<"portateis_cozinha_e_preparadores_de_alimentos", "portable_kitchen">>,
      <<"casa_conforto_2", "home_comfort_2">>,
      <<"agro_industria_e_comercio", "agro_industry_commerce">>,
      <<"market_place", "market_place">>,
      <<"fashion_roupa_infanto_juvenil", "fashion_children_clothes">>,
      <<"musica", "music">>,
      <<"casa_conforto", "home_comfort">>,
      <<"cine_foto", "cine_photo">>,
      <<"moveis_cozinha_area_de_servico_jantar_e_jardim", "kitchen_dining_laundry_garden_furniture">>,
      <<"moveis_escritorio", "office_furniture">>,
      <<"moveis_quarto", "bedroom_furniture">>,
      <<"fashion_roupa_de_banho", "fashion_swimwear">>,
      <<"alimentos", "food">>,
      <<"artes", "arts">>,
      <<"eletronicos", "electronics">>,
      <<"livros", "books">>>>

\* self.category_segments, in the order of the dictionary
CategorySegments ==
    <<<<"Electronics",
         <<"computers_accessories", "telephony", "electronics",
           "tablets_printing_image", "fixed_telephony", "computers",
           "consoles_games", "audio", "cine_photo">>>>,
      <<"Home & Furniture",
         <<"bed_bath_table", "furniture_decor", "housewares",
           "home_appliances", "home_construction", "air_conditioning",
           "living_room_furniture",
           "kitchen_dining_laundry_garden_furniture",
           "office_furniture", "bedroom_furniture", "home_comfort",
           "home_appliances_2", "home_comfort_2", "la_cuisine">>>>,
      <<"Fashion & Beauty",
         <<"health_beauty", "perfumery", "fashion_bags_accessories",
           "fashion_shoes", "fashion_underwear_beach",
           "fashion_sports", "fashion_male_clothing",
           "fashion_female_clothing", "fashion_children_clothes",
           "fashion_swimwear", "watches_gifts">>>>,
      <<"Sports & Leisure",
         <<"sports_leisure", "toys", "baby", "pet_shop",
           "diapers_hygiene">>>>,
      <<"Books & Media",
         <<"books_general_interest", "books_technical",
           "books_imported", "dvds_blu_ray", "cds_dvds_musicals",
           "music", "stationery", "arts_crafts", "arts">>>>,
      <<"Automotive & Tools",
         <<"automotive", "garden_tools",
           "construction_tools_construction",
           "construction_tools_lighting", "construction_tools_safety",
           "construction_tools_garden", "signaling_security">>>>,
      <<"Food & Drinks",
         <<"food_drinks", "food", "portable_kitchen_food_processor",
           "portable_kitchen">>>>,
      <<"Gifts & Party",
         <<"party_supplies", "christmas_articles", "flowers",
           "cool_stuff">>>>,
      <<"Business & Industry",
         <<"industry_commerce_business", "agro_industry_commerce",
           "office_furniture", "musical_instruments">>>>,
      <<"Services",
         <<"insurance_services", "market_place">>>>,
      <<"Other",
         <<>>>>>>

\* df['product_category_name'].map(self.category_translation): the value of
\* the key, null for a name that is no key and for a null name
TranslateCategory(name) ==
    LET Keyed(e) == NotNull(name) /\ e[1] = Val(name)
        hits == SelectSeq(CategoryTranslation, Keyed)
    IN IF hits = <<>> THEN Null ELSE Some(hits[Len(hits)][2])

\* a category whose missing translation is filled with 'unknown' whatever
\* its original name
CategoryEnglishUnknown(name) ==
    IF NotNull(TranslateCategory(name)) THEN Val(TranslateCategory(name))
    ELSE "unknown"

\* the translation, a missing one filled with the original name, a missing
\* name with 'uncategorized'
CategoryEnglish(name) ==
    IF NotNull(TranslateCategory(name)) THEN Val(TranslateCategory(name))
    ELSE IF NotNull(name) THEN Val(name)
    ELSE "uncategorized"

\* _get_category_segment that lets the last listing segment win
GetCategorySegmentLast(category_english) ==
    LET Lists(e) == category_english \in Range(e[2])
        hits == SelectSeq(CategorySegments, Lists)
    IN IF hits = <<>> THEN "Other" ELSE hits[Len(hits)][1]

\* _get_category_segment: the first segment whose list has the category
GetCategorySegment(category_english) ==
    LET Lists(e) == category_english \in Range(e[2])
        hits == SelectSeq(CategorySegments, Lists)
    IN IF hits = <<>> THEN "Other" ELSE hits[1][1]

ProductDimCols ==
    <<"product_key", "product_id", "product_category_name",
      "product_category_english", "product_category_segment">>

ProductDimensionBuild(s) ==
    LET ext  == ProductsExtract(s)
        Has(r) == NotNull(r.product_id)
        kept == SelectSeq(ext.df, Has)
    IN [ok |-> ext.ok,
        df |-> [cols |-> ProductDimCols,
                rows |-> [i \in 1..Len(kept) |->
                            [product_key |-> i, product_id |-> kept[i].product_id,
                             product_category_name |-> kept[i].product_category_name,
                             product_category_english |->
                                 CategoryEnglish(kept[i].product_category_name),
                             product_category_segment |->
                                 GetCategorySegment(
                                     CategoryEnglish(kept[i].product_category_name))]]]]

----------------------------------------------------------------------------
(* PaymentTypeDimensionBuilder *)

\* self.payment_categories, with the default for an unmapped type
PaymentCategory(t) ==
    CASE t = "credit_card" -> "Credit"
      [] t = "boleto"      -> "Cash/Banking"
      [] t = "debit_card"  -> "Debit"
      [] t = "voucher"     -> "Voucher"
      [] t = "not_defined" -> "Unknown"
      [] OTHER             -> "Other"

PaymentTypeDimCols == <<"payment_type_key", "payment_type", "payment_category">>

\* df_payments['payment_type'].dropna().unique()
UniquePaymentTypes(pays) ==
    LET types == [i \in 1..Len(pays) |-> pays[i].payment_type]
    IN UniqueSeq(SelectSeq(types, NotNull))

PaymentTypeDimensionBuild(s) ==
    LET ext == PaymentsExtract(s)
        ts  == UniquePaymentTypes(ext.df)
    IN [ok |-> ext.ok,
        df |-> [cols |-> PaymentTypeDimCols,
                rows |-> [i \in 1..Len(ts) |->
                            [payment_type_key |-> i, payment_type |-> ts[i],
                             payment_category |-> PaymentCategory(Val(ts[i]))]]]]


----------------------------------------------------------------------------
(* CustomerDimensionBuilder *)

\* the rows of df whose key column equals k, in frame order
RowsOfOrder(df, k) == LET Is(r) == r.order_id = k IN SelectSeq(df, Is)
RowsOfCustomer(df, k) == LET Is(r) == r.customer_id = k IN SelectSeq(df, Is)

\* the column `field` of a frame
Column(df, field) == [i \in 1..Len(df) |-> df[i][field]]

RECURSIVE MinSeq(_)
MinSeq(s) == IF Len(s) = 1 THEN s[1]
             ELSE LET m == MinSeq(Tail(s)) IN IF s[1] <= m THEN s[1] ELSE m

RECURSIVE MaxSeq(_)
MaxSeq(s) == IF Len(s) = 1 THEN s[1]
             ELSE LET m == MaxSeq(Tail(s)) IN IF s[1] >= m THEN s[1] ELSE m

\* Step 4-5: order_total of an order: the sum of its items' item_total,
\* 0 when the left join finds no item
OrderTotal(items, oid) == SumSeq(Column(RowsOfOrder(items, oid), "item_total"))

\* Step 7: whole days between first and last order, at least 1
DaysAsCustomer(first, last) == Max2(TimedeltaDays(last, first), 1)

\* a lifetime value that leaves the lifespan out
LifetimeValueOneYear(avg, freq, lifespan) ==
    RoundCents(RatMul(avg, freq))

\* Step 8: avg_order_value x purchase_frequency_annual x (lifespan / 365), rounded
LifetimeValue(avg, freq, lifespan) ==
    RoundCents(RatMul(RatMul(avg, freq), Rat(lifespan, 365)))

\* Step 6-8: the metrics of one customer_id that has orders
CustomerMetrics(orders, items, cid, lifespan) ==
    LET mine   == RowsOfCustomer(orders, cid)
        Dlv(r) == r.order_status = "delivered"
        n      == Len(mine)
        spent  == SumSeq([i \in 1..n |-> OrderTotal(items, mine[i].order_id)])
        first  == MinSeq(Column(mine, "order_purchase_timestamp"))
        last   == MaxSeq(Column(mine, "order_purchase_timestamp"))
        days   == DaysAsCustomer(first, last)
        avg    == Rat(spent, n)
        freq   == Rat(n * 365, days)
    IN [total_orders |-> n, total_spent |-> spent, avg_order_value |-> Some(avg),
        first_order_date |-> Some(first), last_order_date |-> Some(last),
        delivered_orders |-> Some(Len(SelectSeq(mine, Dlv))),
        days_as_customer |-> Some(days),
        purchase_frequency_annual |-> Some(freq),
        lifetime_value |-> LifetimeValue(avg, freq, lifespan)]

\* Step 9: what the left join leaves for a customer without orders, after
\* total_orders, total_spent and lifetime_value are set to 0
NoOrderMetrics ==
    [total_orders |-> 0, total_spent |-> 0, avg_order_value |-> Null,
     first_order_date |-> Null, last_order_date |-> Null,
     delivered_orders |-> Null, days_as_customer |-> Null,
     purchase_frequency_annual |-> Null, lifetime_value |-> 0]

\* SegmentCustomer with the VIP test ahead of the test for no orders
SegmentCustomerVipFirst(total_orders, lifetime_value, rules) ==
    IF total_orders >= rules.vip_customer_min_orders
       \/ lifetime_value >= rules.vip_customer_min_value THEN "VIP"
    ELSE IF total_orders = 0 THEN "Inactive"
    ELSE IF total_orders <= 1 THEN "New"
    ELSE IF total_orders <= rules.returning_customer_max_orders THEN "Returning"
    ELSE "Loyal"

\* _segment_customer that tests for a single order before it tests for VIP
SegmentCustomerNewFirst(total_orders, lifetime_value, rules) ==
    IF total_orders = 0 THEN "Inactive"
    ELSE IF total_orders <= 1 THEN "New"
    ELSE IF total_orders >= rules.vip_customer_min_orders
            \/ lifetime_value >= rules.vip_customer_min_value THEN "VIP"
    ELSE IF total_orders <= rules.returning_customer_max_orders THEN "Returning"
    ELSE "Loyal"

\* _segment_customer: lifetime_value in cents, vip_customer_min_value in cents
SegmentCustomer(total_orders, lifetime_value, rules) ==
    IF total_orders = 0 THEN "Inactive"
    ELSE IF total_orders >= rules.vip_customer_min_orders
            \/ lifetime_value >= rules.vip_customer_min_value THEN "VIP"
    ELSE IF total_orders <= 1 THEN "New"
    ELSE IF total_orders <= rules.returning_customer_max_orders THEN "Returning"
    ELSE "Loyal"

CustomerDimCols ==
    <<"customer_key", "customer_id", "customer_unique_id", "customer_segment",
      "first_order_date", "last_order_date", "total_orders", "delivered_orders",
      "total_spent", "avg_order_value", "lifetime_value", "days_as_customer",
      "purchase_frequency_annual">>

\* SurrogateKey drawn from a sequence that goes on from one run to the next
SurrogateKeyContinued(i) == i + 100 * Len(previous)

\* Step 12: df.index + 1 after reset_index
SurrogateKey(i) == i

CustomerDimRow(i, c, m, rules) ==
    [customer_key |-> SurrogateKey(i), customer_id |-> c.customer_id,
     customer_unique_id |-> c.customer_unique_id,
     customer_segment |-> SegmentCustomer(m.total_orders, m.lifetime_value, rules),
     first_order_date |-> m.first_order_date, last_order_date |-> m.last_order_date,
     total_orders |-> m.total_orders, delivered_orders |-> m.delivered_orders,
     total_spent |-> m.total_spent, avg_order_value |-> m.avg_order_value,
     lifetime_value |-> m.lifetime_value, days_as_customer |-> m.days_as_customer,
     purchase_frequency_annual |-> m.purchase_frequency_annual]

\* CustomerDimensionBuild with an inner join of the customers and their metrics
CustomerDimensionBuildInner(s) ==
    LET cust   == CustomersExtract(s)
        ords   == OrdersExtract(s)
        its    == OrderItemsExtract(s)
        Has(c) == \E i \in 1..Len(ords.df) : ords.df[i].customer_id = c.customer_id
        kept   == SelectSeq(cust.df, Has)
    IN [ok |-> cust.ok /\ ords.ok /\ its.ok,
        df |-> [cols |-> CustomerDimCols,
                rows |-> [i \in 1..Len(kept) |->
                            CustomerDimRow(i, kept[i],
                                CustomerMetrics(ords.df, its.df, kept[i].customer_id,
                                                s.cfg.estimated_lifespan_days),
                                s.cfg.customer_segmentation)]]]

CustomerDimensionBuild(s) ==
    LET cust   == CustomersExtract(s)
        ords   == OrdersExtract(s)
        its    == OrderItemsExtract(s)
        Has(c) == \E i \in 1..Len(ords.df) : ords.df[i].customer_id = c.customer_id
        M(c)   == IF Has(c)
                  THEN CustomerMetrics(ords.df, its.df, c.customer_id,
                                       s.cfg.estimated_lifespan_days)
                  ELSE NoOrderMetrics
    IN [ok |-> cust.ok /\ ords.ok /\ its.ok,
        df |-> [cols |-> CustomerDimCols,
                rows |-> [i \in 1..Len(cust.df) |->
                            CustomerDimRow(i, cust.df[i], M(cust.df[i]),
                                           s.cfg.customer_segmentation)]]]


----------------------------------------------------------------------------
(* FactOrdersBuilder *)

\* Lookup that answers with the key counted from 0
LookupZeroBased(keys, values, k) ==
    LET hits == {i \in 1..Len(keys) : keys[i] = k}
    IN IF IsNull(k) \/ hits = {} THEN Null
       ELSE Some(values[CHOOSE i \in hits : \A j \in hits : j <= i] - 1)

\* dict(zip(keys, values))[k] as Series.map uses it: null when k is null or
\* no key, and the value of the last row holding k when several do
Lookup(keys, values, k) ==
    LET hits == {i \in 1..Len(keys) : keys[i] = k}
    IN IF IsNull(k) \/ hits = {} THEN Null
       ELSE Some(values[CHOOSE i \in hits : \A j \in hits : j <= i])

\* ItemAggregates that takes the product and the seller of the last line item
ItemAggregatesLast(items, oid) ==
    LET mine   == RowsOfOrder(items, oid)
    IN [order_item_count    |-> Len(mine),
        order_subtotal      |-> SumSeq(Column(mine, "price")),
        order_freight_total |-> SumSeq(Column(mine, "freight_value")),
        order_total_value   |-> SumSeq(Column(mine, "item_total")),
        primary_product_id  |-> IF mine = <<>> THEN Null ELSE mine[Len(mine)].product_id,
        seller_id           |-> IF mine = <<>> THEN Null ELSE mine[Len(mine)].seller_id]

\* Step 2 and 4: the order-level item aggregates joined to one order, with
\* the numeric aggregates of an order without items filled with 0
ItemAggregates(items, oid) ==
    LET mine   == RowsOfOrder(items, oid)
    IN [order_item_count    |-> Len(mine),
        order_subtotal      |-> SumSeq(Column(mine, "price")),
        order_freight_total |-> SumSeq(Column(mine, "freight_value")),
        order_total_value   |-> SumSeq(Column(mine, "item_total")),
        primary_product_id  |-> IF mine = <<>> THEN Null ELSE mine[1].product_id,
        seller_id           |-> IF mine = <<>> THEN Null ELSE mine[1].seller_id]

\* FillPaymentType with another sentinel
FillPaymentTypeUnknown == "unknown"

\* the fillna values of step 5
FillPaymentValue == 0
FillPaymentInstallments == 1
FillPaymentType == "not_defined"

\* Step 3 and 5: the order-level payment aggregates joined to one order
PaymentAggregates(pays, oid) ==
    LET mine == RowsOfOrder(pays, oid)
    IN IF mine = <<>>
       THEN [payment_value |-> FillPaymentValue,
             payment_installments |-> FillPaymentInstallments,
             payment_type |-> Some(FillPaymentType)]
       ELSE [payment_value |-> SumSeq(Column(mine, "payment_value")),
             payment_installments |-> MaxSeq(Column(mine, "payment_installments")),
             payment_type |-> IF IsNull(mine[1].payment_type)
                              THEN Some(FillPaymentType) ELSE mine[1].payment_type]

\* Step 6: the left join with the reviews: one row per review of the order,
\* or one row with a null score when it has none
ReviewScores(reviews, oid) ==
    LET mine == RowsOfOrder(reviews, oid)
    IN IF mine = <<>> THEN <<Null>> ELSE Column(mine, "review_score")

\* DeliveryMetrics in which an order counts as completed only with a
\* delivered date
DeliveryMetricsDatedOnly(o) ==
    LET delivered == o.order_delivered_customer_date
        purchase  == o.order_purchase_timestamp
        estimated == o.order_estimated_delivery_date
        delay     == IF IsNull(delivered) THEN Null
                     ELSE Some(TimedeltaDays(Val(delivered), estimated))
    IN [delivery_days |-> IF IsNull(delivered) THEN 0
                          ELSE TimedeltaDays(Val(delivered), purchase),
        estimated_delivery_days |-> TimedeltaDays(estimated, purchase),
        delivery_delay_days |-> IF IsNull(delay) THEN 0 ELSE Val(delay),
        is_late_delivery |-> NotNull(delay) /\ Val(delay) > 0,
        is_completed_order |-> NotNull(delivered) /\ o.order_status = "delivered"]

\* Step 7: the delivery metrics of one order
DeliveryMetrics(o) ==
    LET delivered == o.order_delivered_customer_date
        purchase  == o.order_purchase_timestamp
        estimated == o.order_estimated_delivery_date
        delay     == IF IsNull(delivered) THEN Null
                     ELSE Some(TimedeltaDays(Val(delivered), estimated))
    IN [delivery_days |-> IF IsNull(delivered) THEN 0
                          ELSE TimedeltaDays(Val(delivered), purchase),
        estimated_delivery_days |-> TimedeltaDays(estimated, purchase),
        delivery_delay_days |-> IF IsNull(delay) THEN 0 ELSE Val(delay),
        is_late_delivery |-> NotNull(delay) /\ Val(delay) > 0,
        is_completed_order |-> o.order_status = "delivered"]

\* Step 8, line 204: the date_str column the builder adds to the dim_date
\* frame it was handed
WithDateStr(dim_date) ==
    [cols |-> IF "date_str" \in Range(dim_date.cols) THEN dim_date.cols
              ELSE Append(dim_date.cols, "date_str"),
     rows |-> [i \in 1..Len(dim_date.rows) |->
                 [f \in (DOMAIN dim_date.rows[i]) \cup {"date_str"} |->
                     IF f = "date_str" THEN CastInt(StrftimeYmd(dim_date.rows[i].full_date))
                     ELSE dim_date.rows[i][f]]]]

FactOrdersCols ==
    <<"order_key", "customer_key", "product_key", "order_date_key",
      "delivery_date_key", "payment_type_key", "order_id", "order_status",
      "seller_id", "order_item_count", "order_subtotal", "order_freight_total",
      "order_total_value", "payment_value", "payment_installments",
      "delivery_days", "estimated_delivery_days", "delivery_delay_days",
      "is_late_delivery", "is_completed_order", "review_score", "has_review",
      "order_purchase_timestamp", "order_delivered_customer_date">>

\* one joined row: the order o with one review score, before order_key
FactRow(o, score, items, pays, dims) ==
    LET ia == ItemAggregates(items, o.order_id)
        pa == PaymentAggregates(pays, o.order_id)
        dm == DeliveryMetrics(o)
        dates == dims.dim_date.rows
        date_keys == [i \in 1..Len(dates) |-> Some(dates[i].full_date)]
    IN [customer_key |-> Lookup(Column(dims.dim_customers.rows, "customer_id"),
                                Column(dims.dim_customers.rows, "customer_key"),
                                o.customer_id),
        product_key |-> Lookup(Column(dims.dim_products.rows, "product_id"),
                               Column(dims.dim_products.rows, "product_key"),
                               ia.primary_product_id),
        order_date_key |-> Lookup(date_keys, Column(dates, "date_key"),
                                  Some(DateOf(o.order_purchase_timestamp))),
        delivery_date_key |->
            IF IsNull(o.order_delivered_customer_date) THEN Null
            ELSE Lookup(date_keys, Column(dates, "date_key"),
                        Some(DateOf(Val(o.order_delivered_customer_date)))),
        payment_type_key |-> Lookup(Column(dims.dim_payment_type.rows, "payment_type"),
                                    Column(dims.dim_payment_type.rows, "payment_type_key"),
                                    pa.payment_type),
        order_id |-> o.order_id, order_status |-> o.order_status,
        seller_id |-> ia.seller_id,
        order_item_count |-> ia.order_item_count,
        order_subtotal |-> ia.order_subtotal,
        order_freight_total |-> ia.order_freight_total,
        order_total_value |-> ia.order_total_value,
        payment_value |-> pa.payment_value,
        payment_installments |-> pa.payment_installments,
        payment_type |-> pa.payment_type,
        delivery_days |-> dm.delivery_days,
        estimated_delivery_days |-> dm.estimated_delivery_days,
        delivery_delay_days |-> dm.delivery_delay_days,
        is_late_delivery |-> dm.is_late_delivery,
        is_completed_order |-> dm.is_completed_order,
        review_score |-> score, has_review |-> NotNull(score),
        order_purchase_timestamp |-> o.order_purchase_timestamp,
        order_delivered_customer_date |-> o.order_delivered_customer_date]

\* JoinedRows that keeps only the orders whose customer is in the dimension
JoinedRowsInner(orders, reviews, items, pays, dims) ==
    FlattenSeq([i \in 1..Len(orders) |->
        LET sc == ReviewScores(reviews, orders[i].order_id)
            known == \E c \in 1..Len(dims.dim_customers.rows) :
                        dims.dim_customers.rows[c].customer_id = orders[i].customer_id
        IN IF known
           THEN [j \in 1..Len(sc) |-> FactRow(orders[i], sc[j], items, pays, dims)]
           ELSE <<>>])

\* steps 4-6: the rows of the three left joins, in the order of the orders
JoinedRows(orders, reviews, items, pays, dims) ==
    FlattenSeq([i \in 1..Len(orders) |->
        LET sc == ReviewScores(reviews, orders[i].order_id)
        IN [j \in 1..Len(sc) |-> FactRow(orders[i], sc[j], items, pays, dims)]])

WithKey(r, field, k) ==
    [f \in (DOMAIN r) \cup {field} |-> IF f = field THEN k ELSE r[f]]

\* build(): ok, the fact table, and the dim_date frame as build leaves it
\* (payment_type is joined but is not one of the final columns; the model
\* keeps it in the row, outside cols, for the claims about it)
FactOrdersBuild(s, dims) ==
    LET ords == OrdersExtract(s)
        its  == OrderItemsExtract(s)
        pays == PaymentsExtract(s)
        revs == ReviewsExtract(s)
        ok   == ords.ok /\ its.ok /\ pays.ok /\ revs.ok
        rows == JoinedRows(ords.df, revs.df, its.df, pays.df, dims)
    IN [ok |-> ok,
        df |-> [cols |-> FactOrdersCols,
                rows |-> [i \in 1..Len(rows) |-> WithKey(rows[i], "order_key", SurrogateKey(i))]],
        dim_date |-> IF ok THEN WithDateStr(dims.dim_date) ELSE dims.dim_date]


----------------------------------------------------------------------------
(* CohortRetentionBuilder *)

RECURSIVE SortedSeq(_)
SortedSeq(S) ==
    IF S = {} THEN <<>>
    ELSE LET m == CHOOSE x \in S : \A y \in S : x <= y
         IN <<m>> \o SortedSeq(S \ {m})

\* CohortMonth taken from the customer's last order
CohortMonthOfLastOrder(c) ==
    IF IsNull(c.last_order_date) THEN Null
    ELSE Some(MonthPeriod(Val(c.last_order_date)))

\* Step 2: the cohort month of a customer-dimension row (null without a
\* first order date)
CohortMonth(c) ==
    IF IsNull(c.first_order_date) THEN Null
    ELSE Some(MonthPeriod(Val(c.first_order_date)))

\* Step 3: the inner join of the orders with the customers' cohort months
CohortAnalysis(orders, dim_customers) ==
    FlattenSeq([i \in 1..Len(orders) |->
        LET cs == RowsOfCustomer(dim_customers.rows, orders[i].customer_id)
        IN [j \in 1..Len(cs) |->
              [customer_id |-> orders[i].customer_id,
               order_month |-> MonthPeriod(orders[i].order_purchase_timestamp),
               cohort_month |-> CohortMonth(cs[j])]]])

\* MonthsSince counting the acquisition month as month 1
MonthsSinceOneBased(a) == a.order_month - Val(a.cohort_month) + 1

\* Step 4: order month minus cohort month, in months
MonthsSince(a) == a.order_month - Val(a.cohort_month)

\* RetainedCustomers that counts the orders of the group
RetainedCustomersOrders(an, cohort, k) ==
    Cardinality({j \in 1..Len(an) :
                    Val(an[j].cohort_month) = cohort /\ MonthsSince(an[j]) = k})

\* Step 4: n_unique(customer_id) of one (cohort, offset) group
RetainedCustomers(an, cohort, k) ==
    Cardinality({an[i].customer_id : i \in
        {j \in 1..Len(an) : Val(an[j].cohort_month) = cohort /\ MonthsSince(an[j]) = k}})

\* CohortSize taken from the cohort's row at its largest offset
CohortSizeLatest(an, cohort) ==
    Some(RetainedCustomers(an, cohort,
            MaxSeq(SortedSeq({MonthsSince(an[i]) : i \in
                      {j \in 1..Len(an) : Val(an[j].cohort_month) = cohort}}))))

\* Step 5: the cohort size joined to a cohort: retained_customers of its
\* row at offset 0, null when it has no such row
CohortSize(an, cohort) ==
    IF \E i \in 1..Len(an) : Val(an[i].cohort_month) = cohort /\ MonthsSince(an[i]) = 0
    THEN Some(RetainedCustomers(an, cohort, 0))
    ELSE Null

\* retained / size x 100, rounded to 2 decimals, in hundredths of a percent
RetentionRate(retained, size) ==
    IF IsNull(size) THEN Null ELSE Some(RoundCents(Rat(retained * 10000, Val(size))))

\* the groups of one cohort, sorted by offset
CohortRows(an, cohort) ==
    LET ks == SortedSeq({MonthsSince(an[i]) : i \in
                  {j \in 1..Len(an) : Val(an[j].cohort_month) = cohort}})
    IN [n \in 1..Len(ks) |->
          LET kept == RetainedCustomers(an, cohort, ks[n])
              size == CohortSize(an, cohort)
          IN [cohort_month |-> PeriodToDay(cohort),
              months_since_first_purchase |-> ks[n],
              cohort_size |-> size,
              retained_customers |-> kept,
              retention_rate |-> RetentionRate(kept, size)]]

CohortCols ==
    <<"cohort_retention_key", "cohort_month", "months_since_first_purchase",
      "cohort_size", "retained_customers", "retention_rate">>

\* build(): the month difference of a joined row without a cohort month
\* cannot be taken, and build raises
CohortRetentionBuild(s, dim_customers) ==
    LET ords == OrdersExtract(s)
        an   == CohortAnalysis(ords.df, dim_customers)
        ok   == ords.ok /\ \A i \in 1..Len(an) : NotNull(an[i].cohort_month)
        cohorts == SortedSeq({Val(an[i].cohort_month) : i \in 1..Len(an)})
        rows == FlattenSeq([c \in 1..Len(cohorts) |-> CohortRows(an, cohorts[c])])
    IN [ok |-> ok,
        df |-> [cols |-> CohortCols,
                rows |-> [i \in 1..Len(rows) |->
                            WithKey(rows[i], "cohort_retention_key", SurrogateKey(i))]]]

----------------------------------------------------------------------------
(* TransformOrchestrator.run_all *)

\* BuildOrder with the product dimension built before the date dimension
BuildOrderProductsFirst ==
    <<"dim_products", "dim_date", "dim_payment_type", "dim_customers",
      "fact_orders", "fact_cohort_retention">>

\* the builders in the order run_all calls them
BuildOrder ==
    <<"dim_date", "dim_products", "dim_payment_type", "dim_customers",
      "fact_orders", "fact_cohort_retention">>

\* the position after builder b returned
After(b) ==
    LET i == CHOOSE j \in 1..Len(BuildOrder) : BuildOrder[j] = b
    IN IF i = Len(BuildOrder) THEN "summary" ELSE BuildOrder[i + 1]

\* BuildDimension with a run_all that logs the error of a builder and goes on
BuildDimensionSwallowed(name, out) ==
    /\ pc = name
    /\ started' = Append(started, name)
    /\ dimensions' = IF out.ok THEN Put(dimensions, name, out.df) ELSE dimensions
    /\ pc' = After(name)
    /\ err' = IF out.ok THEN err ELSE Some(name)
    /\ UNCHANGED <<src, facts, result, arg, ret, previous>>

\* a dimension builder runs and its table is stored, or it raises and
\* run_all logs and re-raises
BuildDimension(name, out) ==
    /\ pc = name
    /\ started' = Append(started, name)
    /\ IF out.ok
       THEN /\ dimensions' = Put(dimensions, name, out.df)
            /\ pc' = After(name)
            /\ err' = err
       ELSE /\ dimensions' = dimensions
            /\ pc' = "failed"
            /\ err' = Some(name)
    /\ UNCHANGED <<src, facts, result, arg, ret, previous>>

BuildDimDate == BuildDimension("dim_date", DateDimensionBuild(src))

BuildDimProducts == BuildDimension("dim_products", ProductDimensionBuild(src))

BuildDimPaymentType == BuildDimension("dim_payment_type", PaymentTypeDimensionBuild(src))

BuildDimCustomers == BuildDimension("dim_customers", CustomerDimensionBuild(src))

\* _build_fact_orders hands the builder the four stored frames themselves
BuildFactOrders ==
    /\ pc = "fact_orders"
    /\ started' = Append(started, "fact_orders")
    /\ LET out == FactOrdersBuild(src, dimensions) IN
       IF out.ok
       THEN /\ facts' = Put(facts, "fact_orders", out.df)
            /\ dimensions' = Put(dimensions, "dim_date", out.dim_date)
            /\ pc' = After("fact_orders")
            /\ err' = err
       ELSE /\ facts' = facts
            /\ dimensions' = dimensions
            /\ pc' = "failed"
            /\ err' = Some("fact_orders")
    /\ UNCHANGED <<src, result, arg, ret, previous>>

BuildFactCohortRetention ==
    /\ pc = "fact_cohort_retention"
    /\ started' = Append(started, "fact_cohort_retention")
    /\ LET out == CohortRetentionBuild(src, dimensions["dim_customers"]) IN
       IF out.ok
       THEN /\ facts' = Put(facts, "fact_cohort_retention", out.df)
            /\ pc' = After("fact_cohort_retention")
            /\ err' = err
       ELSE /\ facts' = facts
            /\ pc' = "failed"
            /\ err' = Some("fact_cohort_retention")
    /\ UNCHANGED <<src, dimensions, result, arg, ret, previous>>

\* _print_summary and the return of the result
ReturnResult ==
    /\ pc = "summary"
    /\ result' = Some([dimensions |-> dimensions, facts |-> facts])
    /\ pc' = "done"
    /\ UNCHANGED <<src, dimensions, facts, started, err, arg, ret, previous>>

Next ==
    \/ BuildDimDate
    \/ BuildDimProducts
    \/ BuildDimPaymentType
    \/ BuildDimCustomers
    \/ BuildFactOrders
    \/ BuildFactCohortRetention
    \/ ReturnResult


----------------------------------------------------------------------------
(* The source extracts and configurations the model runs on *)

Order(oid, cid, purchase, delivered, estimated, status) ==
    [order_id |-> oid, customer_id |-> cid, order_status |-> status,
     order_purchase_timestamp |-> purchase,
     order_delivered_customer_date |-> delivered,
     order_estimated_delivery_date |-> estimated]

Item(oid, pid, seller, price, freight) ==
    [order_id |-> oid, product_id |-> pid, seller_id |-> seller,
     price |-> price, freight_value |-> freight]

Payment(oid, type, value, installments) ==
    [order_id |-> oid, payment_type |-> type, payment_value |-> value,
     payment_installments |-> installments]

Review(rid, oid, score) == [review_id |-> rid, order_id |-> oid, review_score |-> score]

Customer(cid, uid) == [customer_id |-> cid, customer_unique_id |-> uid]

Product(pid, category) == [product_id |-> pid, product_category_name |-> category]

Date(y, m, d) == [y |-> y, m |-> m, d |-> d]

\* a timestamp: hour h of the calendar day y-m-d
At(y, m, d, h) == DaysFromCivil(y, m, d) * 24 + h

Rules(vipOrders, vipValue, returningMax) ==
    [vip_customer_min_orders |-> vipOrders, vip_customer_min_value |-> vipValue,
     returning_customer_max_orders |-> returningMax]

Config(start, end, rules) ==
    [start_date |-> start, end_date |-> end, estimated_lifespan_days |-> 730,
     customer_segmentation |-> rules]

RulesA == Rules(5, 100000, 4)
RulesB == Rules(2, 400000000, 1)

ConfigA == Config(Date(2016, 1, 4), Date(2016, 1, 6), RulesA)

Source(orders, items, payments, reviews, customers, products, cfg) ==
    [orders |-> orders, items |-> items, payments |-> payments, reviews |-> reviews,
     customers |-> customers, products |-> products, cfg |-> cfg]

OneCustomer == <<Customer(Some("c1"), Some("u1"))>>
OneProduct == <<Product(Some("p1"), Some("livros"))>>
OneOrder == <<Order(Some("o1"), Some("c1"), At(2016, 1, 5, 10), Null,
                    At(2016, 1, 20, 0), "canceled")>>

\* the calendar, as the claims and the configurations use it
IsLeap(y) == (y % 4 = 0 /\ y % 100 # 0) \/ y % 400 = 0

DaysInMonth(y, m) ==
    IF m = 2 THEN (IF IsLeap(y) THEN 29 ELSE 28)
    ELSE IF m \in {4, 6, 9, 11} THEN 30 ELSE 31

NextDay(c) ==
    IF c.d < DaysInMonth(c.y, c.m) THEN Date(c.y, c.m, c.d + 1)
    ELSE IF c.m < 12 THEN Date(c.y, c.m + 1, 1)
    ELSE Date(c.y + 1, 1, 1)

RECURSIVE DaysLater(_, _)
DaysLater(c, k) == IF k = 0 THEN c ELSE DaysLater(NextDay(c), k - 1)

\* Family 1, the joins of the fact builder: orders that repeat or miss
\* items, payments and reviews
JoinOrders ==
    {[i \in 1..Len(q) |-> Order(Some(q[i]), Some("c1"), At(2016, 1, 5, 10), Null,
                                At(2016, 1, 20, 0), "canceled")] :
        q \in SeqsUpTo({"o1", "o2"}, 1, MaxRows)}
JoinItems ==
    SeqsUpTo({Item(Some("o1"), Some("p1"), Some("s1"), 1000, 500),
              Item(Some("o1"), Some("p2"), Some("s2"), 2500, 700)}, 0, MaxRows)
JoinPayments ==
    SeqsUpTo({Payment(Some("o1"), Some("credit_card"), 1500, 3),
              Payment(Some("o1"), Some("not_defined"), 200, 1)}, 0, MaxRows)
ReviewIds == <<"r1", "r2", "r3", "r4">>
JoinReviews ==
    {[i \in 1..n |-> Review(Some(ReviewIds[i]), Some("o1"), Some(6 - i))] : n \in 0..MaxRows}

JoinSources ==
    {Source(o, i, p, r, OneCustomer, OneProduct, ConfigA) :
        o \in JoinOrders, i \in JoinItems, p \in JoinPayments, r \in JoinReviews}

\* Family 2, customers and their order histories
OrderIds == <<"o1", "o2", "o3", "o4">>
HistoryTimes ==
    {At(2016, 1, 5, 10), At(2016, 1, 5, 22), At(2016, 2, 10, 9), At(2016, 4, 20, 9)}
HistoryOrders ==
    {[i \in 1..Len(q) |-> Order(Some(OrderIds[i]), Some(q[i][1]), q[i][2], Null,
                                At(2016, 5, 1, 0), "shipped")] :
        q \in SeqsUpTo({"c1", "c2"} \X HistoryTimes, 1, MaxRows)}
HistoryCustomers ==
    SeqsUpTo({Customer(Some("c1"), Some("u1")), Customer(Some("c2"), Some("u1"))},
             1, MaxRows)
HistoryItems ==
    <<Item(Some("o1"), Some("p1"), Some("s1"), 4000, 1000),
      Item(Some("o2"), Some("p1"), Some("s1"), 4000, 1000)>>

HistorySources ==
    {Source(o, HistoryItems, <<>>, <<>>, c, OneProduct,
            Config(Date(2016, 1, 4), Date(2016, 1, 6), r)) :
        o \in HistoryOrders, c \in HistoryCustomers, r \in {RulesA, RulesB}}

\* Family 3, the configured date range: ranges across the ends of months
\* and years, and ranges whose end precedes their start
RangeStarts ==
    {c \in {Date(y, m, d) : y \in {2016, 2017}, m \in {1, 2, 3, 12},
                             d \in {1, 2, 27, 28, 29, 30, 31}} :
        c.d <= DaysInMonth(c.y, c.m)}
DateRanges ==
    {<<c, DaysLater(c, k)>> : c \in RangeStarts, k \in 0..MaxSpan}
        \cup {<<NextDay(c), c>> : c \in RangeStarts}

DateSources ==
    {Source(OneOrder, <<>>, <<>>, <<>>, OneCustomer, OneProduct,
            Config(r[1], r[2], RulesA)) : r \in DateRanges}

\* Family 4, one order and its delivery
DeliveredAt ==
    {Null, Some(At(2016, 1, 18, 12)), Some(At(2016, 1, 19, 23)), Some(At(2016, 1, 20, 0)),
     Some(At(2016, 1, 20, 1)), Some(At(2016, 1, 21, 6))}
DeliverySources ==
    {Source(<<Order(Some("o1"), Some("c1"), At(2016, 1, 5, 10), d,
                    At(2016, 1, 20, 0), st)>>,
            <<Item(Some("o1"), Some("p1"), Some("s1"), 1000, 500)>>,
            <<Payment(Some("o1"), Some("boleto"), 1500, 1)>>, <<>>,
            OneCustomer, OneProduct,
            Config(Date(2016, 1, 4), Date(2016, 1, 20), RulesA)) :
        d \in DeliveredAt, st \in {"delivered", "shipped"}}

\* Family 5, extracts that hold a null in a critical column (or no row)
BrokenSources ==
    {Source(<<Order(Some("o1"), Null, At(2016, 1, 5, 10), Null, At(2016, 1, 20, 0), "canceled")>>,
            <<>>, <<>>, <<>>, OneCustomer, OneProduct, ConfigA),
     Source(OneOrder, <<Item(Some("o1"), Null, Some("s1"), 1000, 500)>>,
            <<>>, <<>>, OneCustomer, OneProduct, ConfigA),
     Source(OneOrder, <<>>, <<Payment(Some("o1"), Null, 1500, 1)>>,
            <<>>, OneCustomer, OneProduct, ConfigA),
     Source(OneOrder, <<>>, <<>>, <<Review(Null, Some("o1"), Some(4))>>,
            OneCustomer, OneProduct, ConfigA),
     Source(OneOrder, <<>>, <<>>, <<>>, <<>>, OneProduct, ConfigA),
     Source(OneOrder, <<>>, <<>>, <<>>, OneCustomer,
            <<Product(Null, Some("livros"))>>, ConfigA),
     Source(<<Order(Null, Some("c1"), At(2016, 1, 5, 10), Null, At(2016, 1, 20, 0), "canceled")>>,
            <<>>, <<>>, <<>>, OneCustomer, OneProduct, ConfigA),
     Source(OneOrder, <<Item(Null, Some("p1"), Some("s1"), 1000, 500)>>,
            <<>>, <<>>, OneCustomer, OneProduct, ConfigA),
     Source(OneOrder, <<>>, <<Payment(Null, Some("boleto"), 1500, 1)>>,
            <<>>, OneCustomer, OneProduct, ConfigA),
     Source(OneOrder, <<>>, <<>>, <<>>, <<Customer(Null, Some("u1"))>>, OneProduct, ConfigA),
     Source(OneOrder, <<>>, <<>>, <<Review(Some("r1"), Null, Some(4))>>,
            OneCustomer, OneProduct, ConfigA)}

\* Family 6, extracts that only draw data-quality warnings: every
\* identifier repeated, prices and payment values negative or zero, review
\* scores outside 1..5
WarningSources ==
    {Source(OneOrder \o OneOrder,
            <<Item(Some("o1"), Some("p1"), Some("s1"), price, 500),
              Item(Some("o1"), Some("p1"), Some("s1"), 0, 0)>>,
            <<Payment(Some("o1"), Some("voucher"), value, 1),
              Payment(Some("o1"), Some("boleto"), 0, 0)>>,
            <<Review(Some("r1"), Some("o1"), Some(score)),
              Review(Some("r1"), Some("o1"), Some(6 - score))>>,
            OneCustomer \o OneCustomer, OneProduct \o OneProduct, ConfigA) :
        price \in {-100, 0, 1000}, value \in {-500, 0, 1500}, score \in {0, 6}}

\* Family 7, products of every kind of category: translated into a segment
\* member, translated into no member, untranslated and a member as it is,
\* untranslated and no member, and without a category name
Categories ==
    {Some("informatica_acessorios"), Some("moveis_escritorio"), Some("livros"),
     Some("audio"), Some("electronics"), Some("office_furniture"),
     Some("pc_gamer"), Some("uncategorized"), Some("Other"), Null}
ProductIds == <<"p1", "p2", "p3">>
CategorySources ==
    {Source(OneOrder, <<>>, <<>>, <<>>, OneCustomer,
            [i \in 1..n |-> Product(Some(ProductIds[i]), IF i = 1 THEN c ELSE d)],
            ConfigA) :
        n \in 1..MaxRows, c \in Categories, d \in Categories}

\* Family 8, one order with several line items of several products and
\* sellers, all of them in the product dimension
LineItems ==
    SeqsUpTo({Item(Some("o1"), Some("p1"), Some("s1"), 1000, 500),
              Item(Some("o1"), Some("p2"), Some("s2"), 2500, 700),
              Item(Some("o1"), Some("p3"), Some("s1"), 300, 0)}, 2, MaxRows)
LineItemSources ==
    {Source(OneOrder, i, <<>>, <<>>, OneCustomer,
            <<Product(Some("p1"), Some("livros")), Product(Some("p2"), Null),
              Product(Some("p3"), Some("audio"))>>, ConfigA) :
        i \in LineItems}

\* Family 9, customer c1 with three orders, on 2016-01-05, 2016-02-10 and
\* 2016-04-20 at the same hour, of one item each
ScenarioDays == <<Date(2016, 1, 5), Date(2016, 2, 10), Date(2016, 4, 20)>>
ScenarioSources ==
    {Source([i \in 1..3 |->
                Order(Some(OrderIds[i]), Some("c1"),
                      At(ScenarioDays[i].y, ScenarioDays[i].m, ScenarioDays[i].d, h),
                      Null, At(2016, 5, 1, 0), "shipped")],
            [i \in 1..3 |-> Item(Some(OrderIds[i]), Some("p1"), Some("s1"), price, 1000)],
            <<>>, <<>>, OneCustomer, OneProduct,
            [ConfigA EXCEPT !.estimated_lifespan_days = lifespan]) :
        h \in {0, 10}, price \in {4000, 4001}, lifespan \in {365, 730}}

\* Family 10, cohorts of several customers: c1 and c2 first order in
\* January 2016, c3 in January or February, and one more order of one of them
CohortCustomers ==
    <<Customer(Some("c1"), Some("u1")), Customer(Some("c2"), Some("u2")),
      Customer(Some("c3"), Some("u3"))>>
CohortOrders ==
    {<<Order(Some("o1"), Some("c1"), At(2016, 1, 5, 10), Null, At(2016, 5, 1, 0), "shipped"),
       Order(Some("o2"), Some("c2"), At(2016, 1, 31, 23), Null, At(2016, 5, 1, 0), "shipped"),
       Order(Some("o3"), Some("c3"), third, Null, At(2016, 5, 1, 0), "shipped"),
       Order(Some("o4"), Some(again), fourth, Null, At(2016, 5, 1, 0), "shipped")>> :
        third \in {At(2016, 1, 5, 10), At(2016, 2, 1, 0)},
        again \in {"c1", "c2", "c3"},
        fourth \in {At(2016, 2, 10, 9), At(2016, 4, 20, 9)}}
CohortSources ==
    {Source(o, <<>>, <<>>, <<>>, CohortCustomers, OneProduct, ConfigA) :
        o \in CohortOrders}

Sources == JoinSources \cup HistorySources \cup DateSources \cup DeliverySources
               \cup BrokenSources \cup WarningSources \cup CategorySources
               \cup LineItemSources \cup ScenarioSources \cup CohortSources

\* the state after TransformOrchestrator.__init__, when run_all is called
Init ==
    /\ src \in Sources
    /\ pc = BuildOrder[1]
    /\ dimensions = EmptyMap
    /\ facts = EmptyMap
    /\ started = <<>>
    /\ result = Null
    /\ err = Null
    /\ arg = Null
    /\ ret = Null
    /\ previous = <<>>

Spec == Init /\ [][Next]_vars

----------------------------------------------------------------------------
(* The pipeline run again on the same extracts and configuration: a new    *)
(* process, a new TransformOrchestrator                                    *)

MaxRuns == 2

RerunSources ==
    {s \in JoinSources : Len(s.orders) = 1}
        \cup {s \in HistorySources : Len(s.customers) <= 2
                                      /\ s.cfg.customer_segmentation = RulesA}
        \cup DeliverySources

InitRerun ==
    /\ src \in RerunSources
    /\ pc = BuildOrder[1]
    /\ dimensions = EmptyMap
    /\ facts = EmptyMap
    /\ started = <<>>
    /\ result = Null
    /\ err = Null
    /\ arg = Null
    /\ ret = Null
    /\ previous = <<>>

\* __main__ once more: TransformOrchestrator() and run_all() on unchanged files
RunAgain ==
    /\ pc = "done"
    /\ Len(previous) + 1 < MaxRuns
    /\ previous' = Append(previous, Val(result))
    /\ pc' = BuildOrder[1]
    /\ dimensions' = EmptyMap
    /\ facts' = EmptyMap
    /\ started' = <<>>
    /\ result' = Null
    /\ UNCHANGED <<src, err, arg, ret>>

NextRerun ==
    \/ Next
    \/ RunAgain

SpecRerun == InitRerun /\ [][NextRerun]_vars


----------------------------------------------------------------------------
(* _segment_customer on its own: every threshold configuration of the      *)
(* bounds, applied to every order count and lifetime value                 *)

MaxThreshold == 3

SegmentArgs ==
    {[total_orders |-> n, lifetime_value |-> v, rules |-> Rules(vo, vv, rm)] :
        n \in 0..(MaxThreshold + 1), v \in {0, 49999, 50000, 50001},
        vo \in 1..MaxThreshold, vv \in {0, 50000}, rm \in 1..MaxThreshold}

InitSegment ==
    /\ arg \in SegmentArgs
    /\ ret = Null
    /\ previous = <<>>
    /\ pc = "segment"
    /\ src = Null
    /\ dimensions = EmptyMap
    /\ facts = EmptyMap
    /\ started = <<>>
    /\ result = Null
    /\ err = Null

ApplySegment ==
    /\ pc = "segment"
    /\ ret' = Some(SegmentCustomer(arg.total_orders, arg.lifetime_value, arg.rules))
    /\ pc' = "returned"
    /\ UNCHANGED <<src, dimensions, facts, started, result, err, arg, previous>>

NextSegment == ApplySegment

SpecSegment == InitSegment /\ [][NextSegment]_vars

----------------------------------------------------------------------------
(* _get_category_segment on its own, applied to every category a segment   *)
(* lists, every key and value of the translation table, and names of       *)
(* neither                                                                 *)

CategoryArgs ==
    UNION {Range(CategorySegments[i][2]) : i \in 1..Len(CategorySegments)}
        \cup {CategoryTranslation[i][1] : i \in 1..Len(CategoryTranslation)}
        \cup {CategoryTranslation[i][2] : i \in 1..Len(CategoryTranslation)}
        \cup {"uncategorized", "Other", "Electronics", "pc_gamer", ""}

InitCategory ==
    /\ arg \in CategoryArgs
    /\ ret = Null
    /\ previous = <<>>
    /\ pc = "segment_of"
    /\ src = Null
    /\ dimensions = EmptyMap
    /\ facts = EmptyMap
    /\ started = <<>>
    /\ result = Null
    /\ err = Null

ApplyCategorySegment ==
    /\ pc = "segment_of"
    /\ ret' = Some(GetCategorySegment(arg))
    /\ pc' = "segment_returned"
    /\ UNCHANGED <<src, dimensions, facts, started, result, err, arg, previous>>

NextCategory == ApplyCategorySegment

SpecCategory == InitCategory /\ [][NextCategory]_vars

----------------------------------------------------------------------------
(* FactLoader._load_fact_orders: the staged fact table is appended to the   *)
(* database table in chunks; a chunk whose bulk insert fails is inserted    *)
(* row by row.  A data frame is the sequence of its index labels (read_csv  *)
(* gives 0, 1, ..); the database may refuse any insert, bulk or single.     *)
(* DataFrame.to_sql runs in a transaction of the engine, so a refused bulk  *)
(* insert leaves no row of the chunk in the table.                          *)

MaxLoadRows == 5
ChunkSize == 2

LoadFrames == {[i \in 1..n |-> i - 1] : n \in 0..MaxLoadRows}

\* required_columns
RequiredColumns ==
    <<"customer_key", "product_key", "order_date_key", "delivery_date_key",
      "payment_type_key", "order_id", "order_status", "seller_id",
      "order_item_count", "order_subtotal", "order_freight_total",
      "order_total_value", "payment_value", "payment_installments",
      "delivery_days", "estimated_delivery_days", "delivery_delay_days",
      "is_late_delivery", "is_completed_order", "review_score",
      "has_review", "order_purchase_timestamp", "order_delivered_customer_date",
      "created_at">>

\* the frame the loader inserts for a staged fact table: order_key dropped,
\* the required columns that the table has, every row and cell as staged
FactLoadFrame(df) ==
    LET Available(c) == c \in Range(df.cols) \ {"order_key"}
        available_columns == SelectSeq(RequiredColumns, Available)
    IN [cols |-> available_columns,
        rows |-> [i \in 1..Len(df.rows) |->
                    [c \in Range(available_columns) |-> df.rows[i][c]]]]

\* df.iloc[chunk_start:chunk_start + chunk_size]
ChunkOf(df, chunk_start) ==
    SubSeq(df, chunk_start + 1,
           IF chunk_start + ChunkSize < Len(df) THEN chunk_start + ChunkSize ELSE Len(df))

\* chunk.to_sql(..., method='multi') returned; loaded_rows += len(chunk)
BulkInserted(st, chunk) ==
    [st EXCEPT !.table = @ \o chunk,
               !.loaded_rows = @ + Len(chunk),
               !.chunk_start = @ + ChunkSize]

\* chunk.to_sql raised: the error is logged and the row loop is entered
BulkInsertFailed(st) ==
    [st EXCEPT !.failed_chunks = @ \cup {st.chunk_start}, !.at = 1]

\* the row loop moves to the next row, or the chunk loop to the next chunk
NextRow(st, chunk) ==
    IF st.at < Len(chunk)
    THEN [st EXCEPT !.at = @ + 1]
    ELSE [st EXCEPT !.at = 0, !.chunk_start = @ + ChunkSize]

\* row.to_frame().T.to_sql(...) returned; loaded_rows += 1
RowInserted(st, idx) ==
    [st EXCEPT !.table = Append(@, idx), !.loaded_rows = @ + 1]

\* a row insert that raises, as the method would behave without the inner
\* try: the exception leaves the method
RowInsertFailedRaises(st, idx) ==
    [st EXCEPT !.raised = TRUE]

\* row.to_frame().T.to_sql(...) raised: the row is logged as skipped
RowInsertFailed(st, idx) ==
    [st EXCEPT !.skipped = @ \cup {idx}]

InitLoad ==
    /\ arg \in LoadFrames
    /\ ret = [chunk_start |-> 0, at |-> 0, loaded_rows |-> 0, table |-> <<>>,
              failed_chunks |-> {}, skipped |-> {}, raised |-> FALSE]
    /\ previous = <<>>
    /\ pc = "load_chunk"
    /\ src = Null
    /\ dimensions = EmptyMap
    /\ facts = EmptyMap
    /\ started = <<>>
    /\ result = Null
    /\ err = Null

LoadChunk ==
    /\ pc = "load_chunk"
    /\ ret.chunk_start < Len(arg)
    /\ ret' = BulkInserted(ret, ChunkOf(arg, ret.chunk_start))
    /\ UNCHANGED <<src, pc, dimensions, facts, started, result, err, arg, previous>>

LoadChunkFails ==
    /\ pc = "load_chunk"
    /\ ret.chunk_start < Len(arg)
    /\ ret' = BulkInsertFailed(ret)
    /\ pc' = "load_rows"
    /\ UNCHANGED <<src, dimensions, facts, started, result, err, arg, previous>>

LoadRow ==
    /\ pc = "load_rows"
    /\ ret' = NextRow(RowInserted(ret, ChunkOf(arg, ret.chunk_start)[ret.at]),
                      ChunkOf(arg, ret.chunk_start))
    /\ pc' = IF ret'.at = 0 THEN "load_chunk" ELSE "load_rows"
    /\ UNCHANGED <<src, dimensions, facts, started, result, err, arg, previous>>

LoadRowFails ==
    /\ pc = "load_rows"
    /\ ret' = IF RowInsertFailed(ret, ChunkOf(arg, ret.chunk_start)[ret.at]).raised
              THEN RowInsertFailed(ret, ChunkOf(arg, ret.chunk_start)[ret.at])
              ELSE NextRow(RowInsertFailed(ret, ChunkOf(arg, ret.chunk_start)[ret.at]),
                           ChunkOf(arg, ret.chunk_start))
    /\ pc' = IF ret'.raised THEN "load_raised"
             ELSE IF ret'.at = 0 THEN "load_chunk" ELSE "load_rows"
    /\ UNCHANGED <<src, dimensions, facts, started, result, err, arg, previous>>

LoadReturn ==
    /\ pc = "load_chunk"
    /\ ret.chunk_start >= Len(arg)
    /\ pc' = "loaded"
    /\ UNCHANGED <<src, dimensions, facts, started, result, err, arg, ret, previous>>

NextLoad ==
    \/ LoadChunk
    \/ LoadChunkFails
    \/ LoadRow
    \/ LoadRowFails
    \/ LoadReturn

SpecLoad == InitLoad /\ [][NextLoad]_vars

----------------------------------------------------------------------------
(* LoadOrchestrator.run_complete_load: schema creation, dimension loading  *)
(* and fact loading against a database that holds whatever an earlier load *)
(* left.  A table is absent (null) or holds a set of rows, each row from   *)
(* an earlier load ("old") or from the current staging files ("staged").   *)
(* Every statement runs in a transaction of its own, and any of them may   *)
(* be refused.  ret is the database, arg the database as the run found it.*)

\* the tables in the order create_all_tables creates them
WarehouseTables ==
    <<"dim_date", "dim_products", "dim_payment_type", "dim_customers",
      "fact_orders", "fact_cohort_retention">>

\* drop_queries: the tables in the order _drop_tables drops them
DropOrder ==
    <<"fact_cohort_retention", "fact_orders", "dim_customers",
      "dim_payment_type", "dim_products", "dim_date">>

\* the order of load_all_dimensions
DimensionLoadOrder ==
    <<"dim_date", "dim_products", "dim_payment_type", "dim_customers">>

LoadPhases == <<"schema", "dimensions", "facts">>

\* DROP TABLE IF EXISTS for the first k tables of drop_queries
Dropped(tables, k) ==
    [t \in DOMAIN tables |->
        IF \E i \in 1..k : DropOrder[i] = t THEN Null ELSE tables[t]]

\* CREATE TABLE for the first k tables of the creation order
Created(tables, k) ==
    [t \in DOMAIN tables |->
        IF \E i \in 1..k : WarehouseTables[i] = t THEN Some({}) ELSE tables[t]]

\* to_sql(if_exists='append') of rows into the tables named
Appended(tables, names, rows) ==
    [t \in DOMAIN tables |->
        IF t \in names
        THEN Some((IF IsNull(tables[t]) THEN {} ELSE Val(tables[t])) \cup rows)
        ELSE tables[t]]

\* the end of a phase in an orchestrator that logs a failure and goes on
PhaseEndSwallowed(phase, ok) ==
    [pc  |-> IF phase = "schema" THEN "dimensions"
             ELSE IF phase = "dimensions" THEN "facts" ELSE "summary",
     err |-> Null]

\* the end of a phase: the next phase after a return, the except clause of
\* run_complete_load after a raise
PhaseEnd(phase, ok) ==
    [pc  |-> IF ~ok THEN "load_failed"
             ELSE IF phase = "schema" THEN "dimensions"
             ELSE IF phase = "dimensions" THEN "facts" ELSE "summary",
     err |-> IF ok THEN Null ELSE Some(phase)]

InitLoadAll ==
    /\ ret \in [Range(WarehouseTables) -> {Null, Some({"old"})}]
    /\ pc = "schema"
    /\ started = <<>>
    /\ err = Null
    /\ arg = ret
    /\ previous = <<>>
    /\ src = Null
    /\ dimensions = EmptyMap
    /\ facts = EmptyMap
    /\ result = Null

\* create_all_tables returns: six drops, six creates
CreateSchema ==
    /\ pc = "schema"
    /\ started' = Append(started, "schema")
    /\ ret' = Created(Dropped(ret, Len(DropOrder)), Len(WarehouseTables))
    /\ pc' = PhaseEnd("schema", TRUE).pc
    /\ err' = PhaseEnd("schema", TRUE).err
    /\ UNCHANGED <<src, dimensions, facts, result, arg, previous>>

\* create_all_tables raises: in a drop, in a create, or in _verify_tables
CreateSchemaFails ==
    /\ pc = "schema"
    /\ started' = Append(started, "schema")
    /\ \/ \E k \in 0..(Len(DropOrder) - 1) : ret' = Dropped(ret, k)
       \/ \E k \in 0..Len(WarehouseTables) :
              ret' = Created(Dropped(ret, Len(DropOrder)), k)
    /\ pc' = PhaseEnd("schema", FALSE).pc
    /\ err' = PhaseEnd("schema", FALSE).err
    /\ UNCHANGED <<src, dimensions, facts, result, arg, previous>>

\* load_all_dimensions returns: the four staged dimensions appended
LoadDimensions ==
    /\ pc = "dimensions"
    /\ started' = Append(started, "dimensions")
    /\ ret' = Appended(ret, Range(DimensionLoadOrder), {"staged"})
    /\ pc' = PhaseEnd("dimensions", TRUE).pc
    /\ err' = PhaseEnd("dimensions", TRUE).err
    /\ UNCHANGED <<src, dimensions, facts, result, arg, previous>>

\* load_all_dimensions raises: in one of the four loads or in _verify_loads
LoadDimensionsFails ==
    /\ pc = "dimensions"
    /\ started' = Append(started, "dimensions")
    /\ \E k \in 0..Len(DimensionLoadOrder) :
          ret' = Appended(ret, {DimensionLoadOrder[i] : i \in 1..k}, {"staged"})
    /\ pc' = PhaseEnd("dimensions", FALSE).pc
    /\ err' = PhaseEnd("dimensions", FALSE).err
    /\ UNCHANGED <<src, dimensions, facts, result, arg, previous>>

\* load_all_facts returns: the staged fact rows that were not skipped, and
\* the staged cohort table, appended
LoadFacts ==
    /\ pc = "facts"
    /\ started' = Append(started, "facts")
    /\ \E loaded \in {{}, {"staged"}} :
          ret' = Appended(Appended(ret, {"fact_orders"}, loaded),
                          {"fact_cohort_retention"}, {"staged"})
    /\ pc' = PhaseEnd("facts", TRUE).pc
    /\ err' = PhaseEnd("facts", TRUE).err
    /\ UNCHANGED <<src, dimensions, facts, result, arg, previous>>

\* load_all_facts raises: before the first insert, in the cohort load, or
\* in _verify_loads and _show_analytics after both loads
LoadFactsFails ==
    /\ pc = "facts"
    /\ started' = Append(started, "facts")
    /\ \/ ret' = ret
       \/ \E loaded \in {{}, {"staged"}} :
              \/ ret' = Appended(ret, {"fact_orders"}, loaded)
              \/ ret' = Appended(Appended(ret, {"fact_orders"}, loaded),
                                 {"fact_cohort_retention"}, {"staged"})
    /\ pc' = PhaseEnd("facts", FALSE).pc
    /\ err' = PhaseEnd("facts", FALSE).err
    /\ UNCHANGED <<src, dimensions, facts, result, arg, previous>>

\* _print_summary, and run_complete_load returns
FinishLoad ==
    /\ pc = "summary"
    /\ pc' = "load_done"
    /\ UNCHANGED <<src, dimensions, facts, started, result, err, arg, ret, previous>>

NextLoadAll ==
    \/ CreateSchema
    \/ CreateSchemaFails
    \/ LoadDimensions
    \/ LoadDimensionsFails
    \/ LoadFacts
    \/ LoadFactsFails
    \/ FinishLoad

SpecLoadAll == InitLoadAll /\ [][NextLoadAll]_vars

----------------------------------------------------------------------------
(* DatabaseConnector.get_connection, as execute_query and fetch_query use  *)
(* it, one use after another.  ret is the state of the use in progress or  *)
(* just finished: the connections checked out of the pool, whether the     *)
(* body returned, the calls made on the connection, the state of its       *)
(* transaction, whether the use raised to its caller, and the putconn      *)
(* calls.  previous lists the uses that finished.  The body, commit and    *)
(* rollback may each raise.                                                *)

MaxUses == 2

Queries == {"execute_query", "fetch_query"}

\* where a use goes after its except clause when get_connection has no
\* finally clause
AfterExceptNoFinally == "idle"

\* where a use goes after its except clause: the finally clause
AfterExcept == "putconn"

InitConnection ==
    /\ ret = [out |-> 0, query |-> Null, body_ok |-> Null, commits |-> 0,
              rollbacks |-> 0, tx |-> "none", raised |-> FALSE, returned |-> 0]
    /\ previous = <<>>
    /\ pc = "idle"
    /\ arg = Null
    /\ src = Null
    /\ dimensions = EmptyMap
    /\ facts = EmptyMap
    /\ started = <<>>
    /\ result = Null
    /\ err = Null

\* conn = self.connection_pool.getconn(), and the body is entered
GetConn ==
    /\ pc = "idle"
    /\ Len(previous) < MaxUses
    /\ \E q \in Queries :
          ret' = [out |-> ret.out + 1, query |-> Some(q), body_ok |-> Null,
                  commits |-> 0, rollbacks |-> 0, tx |-> "open",
                  raised |-> FALSE, returned |-> 0]
    /\ pc' = "body"
    /\ UNCHANGED <<src, dimensions, facts, started, result, err, arg, previous>>

\* cur.execute (and fetchall) returned: the generator resumes after yield
BodyReturns ==
    /\ pc = "body"
    /\ ret' = [ret EXCEPT !.body_ok = Some(TRUE)]
    /\ pc' = "commit"
    /\ UNCHANGED <<src, dimensions, facts, started, result, err, arg, previous>>

\* cur.execute or fetchall raised: the error is thrown into the generator
BodyRaises ==
    /\ pc = "body"
    /\ ret' = [ret EXCEPT !.body_ok = Some(FALSE)]
    /\ pc' = "rollback"
    /\ UNCHANGED <<src, dimensions, facts, started, result, err, arg, previous>>

\* conn.commit() returned
Commit ==
    /\ pc = "commit"
    /\ ret' = [ret EXCEPT !.commits = @ + 1, !.tx = "committed"]
    /\ pc' = "putconn"
    /\ UNCHANGED <<src, dimensions, facts, started, result, err, arg, previous>>

\* conn.commit() raised: the except clause is entered
CommitRaises ==
    /\ pc = "commit"
    /\ ret' = [ret EXCEPT !.commits = @ + 1]
    /\ pc' = "rollback"
    /\ UNCHANGED <<src, dimensions, facts, started, result, err, arg, previous>>

\* conn.rollback() returned, the error is logged and raised again
Rollback ==
    /\ pc = "rollback"
    /\ ret' = [ret EXCEPT !.rollbacks = @ + 1, !.tx = "rolled_back", !.raised = TRUE]
    /\ pc' = AfterExcept
    /\ previous' = IF AfterExcept = "idle" THEN Append(previous, ret') ELSE previous
    /\ UNCHANGED <<src, dimensions, facts, started, result, err, arg>>

\* conn.rollback() raised: its error leaves the except clause
RollbackRaises ==
    /\ pc = "rollback"
    /\ ret' = [ret EXCEPT !.rollbacks = @ + 1, !.tx = "unknown", !.raised = TRUE]
    /\ pc' = AfterExcept
    /\ previous' = IF AfterExcept = "idle" THEN Append(previous, ret') ELSE previous
    /\ UNCHANGED <<src, dimensions, facts, started, result, err, arg>>

\* finally: self.connection_pool.putconn(conn); the use is over
PutConn ==
    /\ pc = "putconn"
    /\ ret' = [ret EXCEPT !.out = @ - 1, !.returned = @ + 1]
    /\ previous' = Append(previous, ret')
    /\ pc' = "idle"
    /\ UNCHANGED <<src, dimensions, facts, started, result, err, arg>>

NextConnection ==
    \/ GetConn
    \/ BodyReturns
    \/ BodyRaises
    \/ Commit
    \/ CommitRaises
    \/ Rollback
    \/ RollbackRaises
    \/ PutConn

SpecConnection == InitConnection /\ [][NextConnection]_vars

----------------------------------------------------------------------------
(* The claims *)

Stored(t) == t \in DOMAIN dimensions \cup DOMAIN facts
FactRows == facts["fact_orders"].rows
CohortTable == facts["fact_cohort_retention"].rows
CustomerRows == dimensions["dim_customers"].rows
DateRows == dimensions["dim_date"].rows

OrderIdsOf(rows) == {rows[i].order_id : i \in 1..Len(rows)}

\* C1: the fact table has exactly as many rows as the orders extract has
\* distinct order_id values: one fact row per order.
C1_OneFactRowPerOrder ==
    Stored("fact_orders") =>
        Len(FactRows) = Cardinality(OrderIdsOf(src.orders))

\* C2: every cohort month of the cohort-retention table has exactly one row
\* at offset 0, and in that row retained_customers = cohort_size and
\* retention_rate = 100.00.
C2_CohortOffsetZero ==
    Stored("fact_cohort_retention") =>
        \A i \in 1..Len(CohortTable) :
            LET zero == {j \in 1..Len(CohortTable) :
                            /\ CohortTable[j].cohort_month = CohortTable[i].cohort_month
                            /\ CohortTable[j].months_since_first_purchase = 0}
            IN /\ Cardinality(zero) = 1
               /\ \A j \in zero :
                    /\ CohortTable[j].cohort_size = Some(CohortTable[j].retained_customers)
                    /\ CohortTable[j].retention_rate = Some(10000)

\* a cohort with a row at a later offset beside its row at offset 0
C2_Witness ==
    /\ Stored("fact_cohort_retention")
    /\ \E i \in 1..Len(CohortTable) :
          /\ CohortTable[i].months_since_first_purchase > 0
          /\ CohortTable[i].cohort_size = Some(1)

\* C3: every row of the customer dimension has days_as_customer >= 1, also
\* the rows of customers without any order.
C3_DaysAsCustomerAtLeastOne ==
    Stored("dim_customers") =>
        \A i \in 1..Len(CustomerRows) :
            /\ NotNull(CustomerRows[i].days_as_customer)
            /\ Val(CustomerRows[i].days_as_customer) >= 1

\* C4: no builder changes a table another builder produced: a dimension
\* table the orchestrator holds keeps its columns and rows in every step.
C4_DimensionsNotMutated ==
    [][\A d \in DOMAIN dimensions : dimensions'[d] = dimensions[d]]_vars

\* C5: every fact row is key-mapped to the payment-type dimension built from
\* the same payments extract: payment_type_key is never null.
C5_PaymentTypeKeyNeverNull ==
    Stored("fact_orders") =>
        \A i \in 1..Len(FactRows) : NotNull(FactRows[i].payment_type_key)

IsPrefix(s, t) == Len(s) <= Len(t) /\ \A i \in 1..Len(s) : s[i] = t[i]

\* C6: the builders start in the order date, product, payment-type,
\* customer, fact-orders, cohort-retention; fact-orders starts only with
\* the four dimension tables stored, cohort-retention only with the
\* customer dimension stored.
C6_BuildersInOrder ==
    /\ IsPrefix(started, <<"dim_date", "dim_products", "dim_payment_type",
                           "dim_customers", "fact_orders", "fact_cohort_retention">>)
    /\ "fact_orders" \in Range(started) =>
          {"dim_date", "dim_products", "dim_payment_type", "dim_customers"}
              \subseteq DOMAIN dimensions
    /\ "fact_cohort_retention" \in Range(started) => "dim_customers" \in DOMAIN dimensions

\* a run in which all six builders started and run_all returned
C6_Witness == pc = "done" /\ Len(started) = 6 /\ NotNull(result)

\* the rules of the segmentation, in the order the claim lists them
C7_RuleList(a) ==
    <<[when |-> a.total_orders = 0, label |-> "Inactive"],
      [when |-> a.total_orders >= a.rules.vip_customer_min_orders
                \/ a.lifetime_value >= a.rules.vip_customer_min_value, label |-> "VIP"],
      [when |-> a.total_orders <= 1, label |-> "New"],
      [when |-> a.total_orders <= a.rules.returning_customer_max_orders,
       label |-> "Returning"],
      [when |-> TRUE, label |-> "Loyal"]>>

C7_FirstMatch(a) ==
    LET rules == C7_RuleList(a)
        first == CHOOSE i \in 1..Len(rules) :
                    rules[i].when /\ \A j \in 1..(i - 1) : ~rules[j].when
    IN rules[first].label

C8_OneRowPerCustomerId ==
    Stored("dim_customers") =>
        /\ Len(CustomerRows)
              = Cardinality({src.customers[i].customer_id : i \in 1..Len(src.customers)})
        /\ \A i \in 1..Len(CustomerRows) :
              /\ CustomerRows[i].customer_key = i
              /\ CustomerRows[i].customer_id = src.customers[i].customer_id

NoRowsFor(df, oid) == \A i \in 1..Len(df) : df[i].order_id # oid

\* C9 as stated: an order without items and payments has every numeric
\* aggregate 0, payment_installments included, and payment type 'not_defined'.
C9_Original ==
    Stored("fact_orders") =>
        \A i \in 1..Len(FactRows) :
            (NoRowsFor(src.items, FactRows[i].order_id)
                /\ NoRowsFor(src.payments, FactRows[i].order_id)) =>
                /\ FactRows[i].order_item_count = 0
                /\ FactRows[i].order_subtotal = 0
                /\ FactRows[i].order_freight_total = 0
                /\ FactRows[i].order_total_value = 0
                /\ FactRows[i].payment_value = 0
                /\ FactRows[i].payment_installments = 0
                /\ FactRows[i].payment_type = Some("not_defined")

\* C9, amended: an order without items and payments has order_item_count,
\* order_subtotal, order_freight_total, order_total_value and payment_value
\* equal to 0, payment_installments equal to 1, and payment type
\* 'not_defined'.
C9_MissingAggregatesDefaulted ==
    Stored("fact_orders") =>
        \A i \in 1..Len(FactRows) :
            (NoRowsFor(src.items, FactRows[i].order_id)
                /\ NoRowsFor(src.payments, FactRows[i].order_id)) =>
                /\ FactRows[i].order_item_count = 0
                /\ FactRows[i].order_subtotal = 0
                /\ FactRows[i].order_freight_total = 0
                /\ FactRows[i].order_total_value = 0
                /\ FactRows[i].payment_value = 0
                /\ FactRows[i].payment_installments = 1
                /\ FactRows[i].payment_type = Some("not_defined")

\* a fact row of an order without items and payments, beside one with both
C9_Witness ==
    /\ Stored("fact_orders")
    /\ \E i \in 1..Len(FactRows) :
          /\ NoRowsFor(src.items, FactRows[i].order_id)
          /\ NoRowsFor(src.payments, FactRows[i].order_id)
    /\ \E i \in 1..Len(FactRows) : FactRows[i].order_item_count = 2

DateBefore(a, b) ==
    \/ a.y < b.y
    \/ a.y = b.y /\ a.m < b.m
    \/ a.y = b.y /\ a.m = b.m /\ a.d <= b.d

RowDate(r) == Date(r.year, r.month, r.day_of_month)

\* C10: for start_date <= end_date the date dimension holds one row for
\* each calendar day from start_date to end_date, in order, without gap or
\* duplicate, and every date_key is the integer YYYYMMDD of its full_date.
C10_DateDimension ==
    (Stored("dim_date") /\ DateBefore(src.cfg.start_date, src.cfg.end_date)) =>
        /\ Len(DateRows) >= 1
        /\ RowDate(DateRows[1]) = src.cfg.start_date
        /\ RowDate(DateRows[Len(DateRows)]) = src.cfg.end_date
        /\ \A i \in 1..(Len(DateRows) - 1) :
              /\ RowDate(DateRows[i + 1]) = NextDay(RowDate(DateRows[i]))
              /\ DateRows[i + 1].full_date = DateRows[i].full_date + 1
        /\ \A i \in 1..Len(DateRows) :
              /\ CivilFromDays(DateRows[i].full_date) = RowDate(DateRows[i])
              /\ DateRows[i].date_key
                    = DateRows[i].year * 10000 + DateRows[i].month * 100
                        + DateRows[i].day_of_month

\* a range that crosses the end of February of a leap year
C10_Witness ==
    /\ Stored("dim_date")
    /\ \E i \in 1..(Len(DateRows) - 1) :
          /\ DateRows[i].date_key = 20160229
          /\ DateRows[i + 1].date_key = 20160301


C12_FailureStopsRun ==
    (NotNull(err) \/ pc = "failed") =>
        /\ pc = "failed"
        /\ IsNull(result)
        /\ Len(started) >= 1
        /\ err = Some(started[Len(started)])
        /\ IsPrefix(started, BuildOrder)
        /\ Len(started) < Len(BuildOrder) => ~Stored(BuildOrder[Len(started) + 1])
        /\ ~Stored(Val(err))

\* the fact-orders builder raised after the four dimensions were built
C12_Witness ==
    /\ pc = "failed"
    /\ err = Some("fact_orders")
    /\ Len(started) = 5

\* the cells of column `field` of a stored dimension
DimCells(d, field) == Range(Column(dimensions[d].rows, field))

\* C13: the fact builder raises only when one of its extractors does; every
\* order of the orders extract has a fact row; in each of its rows a foreign
\* key is null exactly when the order's customer_id, primary product_id,
\* payment type, purchase date or delivery date is not in the dimension.
C13_UnmatchedKeysNull ==
    /\ err = Some("fact_orders") =>
          ~(OrdersExtract(src).ok /\ OrderItemsExtract(src).ok
              /\ PaymentsExtract(src).ok /\ ReviewsExtract(src).ok)
    /\ Stored("fact_orders") =>
          \A i \in 1..Len(src.orders) :
              LET o    == src.orders[i]
                  mine == {j \in 1..Len(FactRows) : FactRows[j].order_id = o.order_id}
                  its  == RowsOfOrder(src.items, o.order_id)
                  days == {dimensions["dim_date"].rows[k].full_date :
                              k \in 1..Len(dimensions["dim_date"].rows)}
              IN /\ mine # {}
                 /\ \A j \in mine :
                      /\ IsNull(FactRows[j].customer_key)
                           <=> o.customer_id \notin DimCells("dim_customers", "customer_id")
                      /\ IsNull(FactRows[j].product_key)
                           <=> (its = <<>> \/ its[1].product_id
                                                \notin DimCells("dim_products", "product_id"))
                      /\ IsNull(FactRows[j].payment_type_key)
                           <=> FactRows[j].payment_type
                                  \notin DimCells("dim_payment_type", "payment_type")
                      /\ IsNull(FactRows[j].order_date_key)
                           <=> DateOf(o.order_purchase_timestamp) \notin days
                      /\ IsNull(FactRows[j].delivery_date_key)
                           <=> (IsNull(o.order_delivered_customer_date)
                                  \/ DateOf(Val(o.order_delivered_customer_date)) \notin days)

\* a fact row of an order whose customer and purchase date are in no dimension
C13_Witness ==
    /\ Stored("fact_orders")
    /\ \E j \in 1..Len(FactRows) :
          /\ IsNull(FactRows[j].customer_key)
          /\ IsNull(FactRows[j].order_date_key)
          /\ NotNull(FactRows[j].product_key)

\* C14: every row of the cohort-retention table has
\* months_since_first_purchase >= 0, and its cohort month is the first day
\* of a month in which some customer placed a first order.
C14_OffsetsNotNegative ==
    Stored("fact_cohort_retention") =>
        \A i \in 1..Len(CohortTable) :
            /\ CohortTable[i].months_since_first_purchase >= 0
            /\ \E c \in 1..Len(CustomerRows) :
                  /\ NotNull(CustomerRows[c].first_order_date)
                  /\ PeriodToDay(MonthPeriod(Val(CustomerRows[c].first_order_date)))
                        = CohortTable[i].cohort_month

\* a customer who ordered again three months after the first order
C14_Witness ==
    /\ Stored("fact_cohort_retention")
    /\ \E i \in 1..Len(CohortTable) : CohortTable[i].months_since_first_purchase >= 3

\* C15: a customer of the customers extract without any order has a row in
\* the customer dimension, and each of its rows has total_orders = 0,
\* total_spent = 0, lifetime_value = 0 and customer_segment = 'Inactive'.
C15_NoOrderCustomerZeroed ==
    Stored("dim_customers") =>
        \A i \in 1..Len(src.customers) :
            LET cid  == src.customers[i].customer_id
                mine == {j \in 1..Len(CustomerRows) : CustomerRows[j].customer_id = cid}
            IN RowsOfCustomer(src.orders, cid) = <<>> =>
                  /\ mine # {}
                  /\ \A j \in mine :
                        /\ CustomerRows[j].total_orders = 0
                        /\ CustomerRows[j].total_spent = 0
                        /\ CustomerRows[j].lifetime_value = 0
                        /\ CustomerRows[j].customer_segment = "Inactive"

\* a customer without orders beside a customer with orders
C15_Witness ==
    /\ Stored("dim_customers")
    /\ \E i \in 1..Len(CustomerRows) :
          /\ CustomerRows[i].customer_segment = "Inactive"
          /\ RowsOfCustomer(src.orders, CustomerRows[i].customer_id) = <<>>
    /\ \E i \in 1..Len(CustomerRows) : CustomerRows[i].total_orders >= 1

\* C16: a fact row of an order without a delivered date has delivery_days
\* = 0, delivery_delay_days = 0, is_late_delivery = false and a null
\* delivery_date_key, whatever the order's status; in every fact row
\* is_completed_order is true exactly when order_status is 'delivered'.
C16_UndeliveredDefaults ==
    Stored("fact_orders") =>
        \A i \in 1..Len(FactRows) :
            /\ FactRows[i].is_completed_order <=> FactRows[i].order_status = "delivered"
            /\ IsNull(FactRows[i].order_delivered_customer_date) =>
                  /\ FactRows[i].delivery_days = 0
                  /\ FactRows[i].delivery_delay_days = 0
                  /\ FactRows[i].is_late_delivery = FALSE
                  /\ IsNull(FactRows[i].delivery_date_key)

\* an order with status 'delivered' and no delivered date
C16_Witness ==
    /\ Stored("fact_orders")
    /\ \E i \in 1..Len(FactRows) :
          /\ IsNull(FactRows[i].order_delivered_customer_date)
          /\ FactRows[i].order_status = "delivered"
          /\ FactRows[i].is_completed_order

\* the extracts of src with a null in a critical identifier column
CriticalNull ==
    [orders    |-> AnyNull(src.orders, "order_id") \/ AnyNull(src.orders, "customer_id"),
     items     |-> AnyNull(src.items, "order_id") \/ AnyNull(src.items, "product_id"),
     customers |-> AnyNull(src.customers, "customer_id"),
     products  |-> AnyNull(src.products, "product_id"),
     payments  |-> AnyNull(src.payments, "order_id"),
     reviews   |-> AnyNull(src.reviews, "review_id")]

\* builder b has started and has raised: run_all is at its re-raise, b is
\* the last builder started and its table is not stored
Aborted(b) ==
    b \in Range(started) =>
        pc = "failed" /\ err = Some(b) /\ IsNull(result) /\ ~Stored(b)

\* C17: an extractor whose source holds a null in a critical identifier
\* column raises, and the first builder that invokes it aborts the run.
C17_CriticalNullAborts ==
    /\ CriticalNull.orders => ~OrdersExtract(src).ok /\ Aborted("dim_customers")
    /\ CriticalNull.items => ~OrderItemsExtract(src).ok /\ Aborted("dim_customers")
    /\ CriticalNull.customers => ~CustomersExtract(src).ok /\ Aborted("dim_customers")
    /\ CriticalNull.products => ~ProductsExtract(src).ok /\ Aborted("dim_products")
    /\ CriticalNull.payments => ~PaymentsExtract(src).ok /\ Aborted("dim_payment_type")
    /\ CriticalNull.reviews => ~ReviewsExtract(src).ok /\ Aborted("fact_orders")

\* the customer builder raised on an orders extract with a null customer_id
C17_Witness ==
    /\ AnyNull(src.orders, "customer_id")
    /\ pc = "failed"
    /\ err = Some("dim_customers")

\* what makes each extractor raise: a null in a critical column, a null
\* payment type, an empty customers file
ExtractRaises ==
    [orders    |-> CriticalNull.orders,
     items     |-> CriticalNull.items,
     customers |-> CriticalNull.customers \/ AnyNull(src.customers, "customer_unique_id")
                      \/ src.customers = <<>>,
     products  |-> CriticalNull.products,
     payments  |-> CriticalNull.payments \/ AnyNull(src.payments, "payment_type"),
     reviews   |-> CriticalNull.reviews \/ AnyNull(src.reviews, "order_id")]

\* the rows of the order-items extract without the item_total column
SourceItems(df) ==
    [i \in 1..Len(df) |-> Item(df[i].order_id, df[i].product_id, df[i].seller_id,
                               df[i].price, df[i].freight_value)]

\* C18: unless a critical column holds a null, every extractor returns
\* the rows of its source, all of them and unchanged, also with repeated
\* identifiers, negative or zero prices and payment values and review
\* scores outside 1..5; the product and customer dimensions keep one row
\* per row of their extract.
C18_WarningsKeepRows ==
    /\ ~ExtractRaises.orders =>
          OrdersExtract(src).ok /\ OrdersExtract(src).df = src.orders
    /\ ~ExtractRaises.items =>
          OrderItemsExtract(src).ok /\ SourceItems(OrderItemsExtract(src).df) = src.items
    /\ ~ExtractRaises.customers =>
          CustomersExtract(src).ok /\ CustomersExtract(src).df = src.customers
    /\ ~ExtractRaises.products =>
          ProductsExtract(src).ok /\ ProductsExtract(src).df = src.products
    /\ ~ExtractRaises.payments =>
          PaymentsExtract(src).ok /\ PaymentsExtract(src).df = src.payments
    /\ ~ExtractRaises.reviews =>
          ReviewsExtract(src).ok /\ ReviewsExtract(src).df = src.reviews
    /\ Stored("dim_products") =>
          Len(dimensions["dim_products"].rows) = Len(src.products)
    /\ Stored("dim_customers") => Len(CustomerRows) = Len(src.customers)

\* a completed run on extracts with every identifier repeated, a negative
\* price, a negative payment value and out-of-range review scores
C18_Witness ==
    /\ pc = "done"
    /\ src \in WarningSources
    /\ \E i \in 1..Len(src.items) : src.items[i].price < 0
    /\ \E i \in 1..Len(src.payments) : src.payments[i].payment_value < 0
    /\ Len(dimensions["dim_products"].rows) = 2
    /\ Len(FactRows) = 4

\* the index labels of the chunks whose bulk insert was refused
RowsOfFailedChunks ==
    UNION {Range(ChunkOf(arg, c)) : c \in ret.failed_chunks}

\* C19: when the method has returned, it has not raised; every row of a
\* chunk whose bulk insert failed was inserted on its own, and is either in
\* the table or logged as skipped, never both; every row of the other chunks
\* is in the table; and loaded_rows is the number of rows in the table.
C19_FailedChunkRowByRow ==
    pc \in {"loaded", "load_raised"} =>
        /\ pc = "loaded"
        /\ ~ret.raised
        /\ ret.skipped \subseteq RowsOfFailedChunks
        /\ \A idx \in RowsOfFailedChunks :
               (idx \in Range(ret.table)) # (idx \in ret.skipped)
        /\ \A idx \in Range(arg) \ RowsOfFailedChunks : idx \in Range(ret.table)
        /\ Cardinality(Range(ret.table)) = Len(ret.table)
        /\ ret.loaded_rows = Len(ret.table)

C19_Witness ==
    /\ pc = "loaded"
    /\ Cardinality(ret.failed_chunks) = 1
    /\ Len(arg) > 2 * ChunkSize - 1
    /\ ret.skipped # {}
    /\ RowsOfFailedChunks \ ret.skipped # {}
    /\ ret.loaded_rows = Len(arg) - Cardinality(ret.skipped)

ProductRows == dimensions["dim_products"].rows

\* the names that are keys of the translation table
TranslationKeys == {CategoryTranslation[i][1] : i \in 1..Len(CategoryTranslation)}

\* the segments whose list has the name
SegmentsListing(name) ==
    {CategorySegments[i][1] : i \in
        {j \in 1..Len(CategorySegments) : name \in Range(CategorySegments[j][2])}}

ItemTotals ==
    {"order_item_count", "order_subtotal", "order_freight_total", "order_total_value"}

\* the fact row j rebuilt from the first line item of its order alone
FirstItemRow(j) ==
    FactRow(CHOOSE o \in Range(src.orders) : o.order_id = FactRows[j].order_id,
            FactRows[j].review_score,
            SubSeq(RowsOfOrder(OrderItemsExtract(src).df, FactRows[j].order_id), 1, 1),
            src.payments, dimensions)

\* C21: in the fact row of an order with several line items, product_key is
\* the surrogate key the product dimension gives the product_id of the
\* first line item in extract order and seller_id is that item's seller;
\* order_item_count and the three amounts are the count and the sums over
\* all the items; every other field is what the first item alone gives.
C21_FirstLineItem ==
    Stored("fact_orders") =>
        \A j \in 1..Len(FactRows) :
            Len(RowsOfOrder(src.items, FactRows[j].order_id)) > 1 =>
                /\ \E p \in 1..Len(ProductRows) :
                       /\ ProductRows[p].product_id =
                              RowsOfOrder(src.items, FactRows[j].order_id)[1].product_id
                       /\ FactRows[j].product_key = Some(ProductRows[p].product_key)
                   \/ /\ IsNull(FactRows[j].product_key)
                      /\ RowsOfOrder(src.items, FactRows[j].order_id)[1].product_id
                            \notin DimCells("dim_products", "product_id")
                /\ FactRows[j].seller_id =
                       RowsOfOrder(src.items, FactRows[j].order_id)[1].seller_id
                /\ FactRows[j].order_item_count =
                       Len(RowsOfOrder(src.items, FactRows[j].order_id))
                /\ FactRows[j].order_subtotal =
                       SumSeq(Column(RowsOfOrder(src.items, FactRows[j].order_id), "price"))
                /\ FactRows[j].order_freight_total =
                       SumSeq(Column(RowsOfOrder(src.items, FactRows[j].order_id),
                                     "freight_value"))
                /\ FactRows[j].order_total_value =
                       FactRows[j].order_subtotal + FactRows[j].order_freight_total
                /\ \A f \in DOMAIN FirstItemRow(j) \ ItemTotals :
                       FactRows[j][f] = FirstItemRow(j)[f]

C21_Witness ==
    /\ Stored("fact_orders")
    /\ Len(FactRows) = 1
    /\ Column(src.items, "product_id") = <<Some("p2"), Some("p1")>>
    /\ FactRows[1].product_key = Some(2)
    /\ FactRows[1].seller_id = Some("s2")
    /\ FactRows[1].order_item_count = 2

\* the rows of the customer dimension of customers that have an order
WithOrders == {i \in 1..Len(CustomerRows) : CustomerRows[i].total_orders > 0}

\* the three-order customer of the scenario: orders of 50.00 each, lifespan 730
IsScenario ==
    /\ src \in ScenarioSources
    /\ src.cfg.estimated_lifespan_days = 730
    /\ \A k \in 1..Len(src.items) : src.items[k].price + src.items[k].freight_value = 5000

\* the general part of C22: lifetime_value is avg_order_value x
\* (total_orders / days_as_customer x 365) x (estimated_lifespan_days / 365),
\* rounded to cents, in every row of a customer with an order
C22_Formula ==
    \A i \in WithOrders :
        CustomerRows[i].lifetime_value =
            RoundCents(RatMul(RatMul(Val(CustomerRows[i].avg_order_value),
                                     Rat(CustomerRows[i].total_orders * 365,
                                         Val(CustomerRows[i].days_as_customer))),
                              Rat(src.cfg.estimated_lifespan_days, 365)))

\* the figures of the scenario that C22 shares with its amendment
C22_Figures ==
    \A i \in WithOrders :
        /\ CustomerRows[i].total_orders = 3
        /\ CustomerRows[i].total_spent = 15000
        /\ CustomerRows[i].avg_order_value = Some(Rat(5000, 1))
        /\ CustomerRows[i].days_as_customer = Some(106)
        /\ CustomerRows[i].purchase_frequency_annual = Some(Rat(3 * 365, 106))
        /\ RoundCents(RatMul(Rat(100, 1), Val(CustomerRows[i].purchase_frequency_annual))) = 1033

\* C22 as stated: the formula, and in the scenario a lifetime_value of
\* 1033.33, to the cent.
C22_Original ==
    Stored("dim_customers") =>
        /\ C22_Formula
        /\ IsScenario =>
              /\ C22_Figures
              /\ \A i \in WithOrders : CustomerRows[i].lifetime_value = 103333

\* C22, amended: the formula holds for every customer with an order; in
\* the scenario total_orders = 3, total_spent = 150, avg_order_value = 50,
\* days_as_customer = 106, purchase_frequency_annual = 10.33 to two
\* decimals, and lifetime_value = 1033.02.
C22_LifetimeValue ==
    Stored("dim_customers") =>
        /\ C22_Formula
        /\ IsScenario =>
              /\ C22_Figures
              /\ \A i \in WithOrders : CustomerRows[i].lifetime_value = 103302

C22_Witness ==
    /\ Stored("dim_customers")
    /\ IsScenario
    /\ WithOrders = {1}
    /\ CustomerRows[1].customer_id = Some("c1")
    /\ CustomerRows[1].lifetime_value = 103302

\* the customers of the customer dimension that have an order
Buyers ==
    {c \in DimCells("dim_customers", "customer_id") :
        \E i \in 1..Len(src.orders) : src.orders[i].customer_id = c}

\* the months in which customer c placed an order
OrderMonths(c) ==
    {MonthPeriod(src.orders[i].order_purchase_timestamp) : i \in
        {j \in 1..Len(src.orders) : src.orders[j].customer_id = c}}

\* the month of the earliest order of customer c
FirstMonth(c) == CHOOSE m \in OrderMonths(c) : \A n \in OrderMonths(c) : m <= n

\* the customers of cohort m with an order k months after m
ActiveAt(m, k) == {c \in Buyers : FirstMonth(c) = m /\ m + k \in OrderMonths(c)}

\* the (cohort month, offset) pairs in which some customer of the cohort ordered
CohortPairs ==
    {<<FirstMonth(q[1]), q[2] - FirstMonth(q[1])>> : q \in
        {r \in Buyers \X UNION {OrderMonths(b) : b \in Buyers} :
            r[2] \in OrderMonths(r[1])}}

\* C23: the cohort-retention table has exactly one row for every pair of a
\* cohort month and an offset at which some customer of the cohort ordered,
\* and no other row; in the row retained_customers is the number of
\* distinct customers of the cohort with an order in the offset month,
\* cohort_size the number of them with an order at offset 0, and
\* retention_rate is retained_customers / cohort_size x 100 rounded to 2
\* decimals.
C23_OneRowPerCohortOffset ==
    Stored("fact_cohort_retention") =>
        /\ Len(CohortTable) = Cardinality(CohortPairs)
        /\ \A p \in CohortPairs :
               \E i \in 1..Len(CohortTable) :
                   /\ CohortTable[i].cohort_month = PeriodToDay(p[1])
                   /\ CohortTable[i].months_since_first_purchase = p[2]
                   /\ CohortTable[i].retained_customers = Cardinality(ActiveAt(p[1], p[2]))
                   /\ CohortTable[i].cohort_size = Some(Cardinality(ActiveAt(p[1], 0)))
                   /\ CohortTable[i].retention_rate =
                          Some(RoundCents(Rat(Cardinality(ActiveAt(p[1], p[2])) * 10000,
                                              Cardinality(ActiveAt(p[1], 0)))))

\* a cohort of three customers, one of whom ordered again in a later month:
\* a retention rate of 33.33
C23_Witness ==
    /\ Stored("fact_cohort_retention")
    /\ \E i \in 1..Len(CohortTable) :
          /\ CohortTable[i].months_since_first_purchase > 0
          /\ CohortTable[i].cohort_size = Some(3)
          /\ CohortTable[i].retained_customers = 1
          /\ CohortTable[i].retention_rate = Some(3333)

PaymentTypeRows == dimensions["dim_payment_type"].rows

\* the rows the fact loader inserts for the stored fact table
LoadedFactRows == FactLoadFrame(facts["fact_orders"]).rows

\* the orders extract's rows of the order of fact row j
OrdersOf(j) == {o \in Range(src.orders) : o.order_id = FactRows[j].order_id}

\* C24: a non-null customer_key, product_key or payment_type_key of a fact
\* row is the surrogate key of a row of its dimension whose business key is
\* the order's customer_id, the product_id of its first line item, or its
\* payment type after the sentinel; a non-null order_date_key is the
\* date_key of the date-dimension row of the purchase date; and the loader
\* inserts the four keys as the fact table holds them.
C24_KeysReused ==
    Stored("fact_orders") =>
        \A j \in 1..Len(FactRows) :
            /\ NotNull(FactRows[j].customer_key) =>
                  \E c \in 1..Len(CustomerRows), o \in OrdersOf(j) :
                      /\ CustomerRows[c].customer_key = Val(FactRows[j].customer_key)
                      /\ CustomerRows[c].customer_id = o.customer_id
            /\ NotNull(FactRows[j].product_key) =>
                  \E p \in 1..Len(ProductRows) :
                      /\ ProductRows[p].product_key = Val(FactRows[j].product_key)
                      /\ ProductRows[p].product_id =
                             RowsOfOrder(src.items, FactRows[j].order_id)[1].product_id
            /\ NotNull(FactRows[j].payment_type_key) =>
                  \E t \in 1..Len(PaymentTypeRows) :
                      /\ PaymentTypeRows[t].payment_type_key = Val(FactRows[j].payment_type_key)
                      /\ PaymentTypeRows[t].payment_type = FactRows[j].payment_type
                      /\ FactRows[j].payment_type =
                             (IF NoRowsFor(src.payments, FactRows[j].order_id)
                              THEN Some("not_defined")
                              ELSE RowsOfOrder(src.payments, FactRows[j].order_id)[1].payment_type)
            /\ NotNull(FactRows[j].order_date_key) =>
                  \E d \in 1..Len(DateRows), o \in OrdersOf(j) :
                      /\ DateRows[d].date_key = Val(FactRows[j].order_date_key)
                      /\ DateRows[d].full_date = DateOf(o.order_purchase_timestamp)
            /\ \A f \in {"customer_key", "product_key", "payment_type_key", "order_date_key"} :
                  LoadedFactRows[j][f] = FactRows[j][f]

\* a fact row with all four keys
C24_Witness ==
    /\ Stored("fact_orders")
    /\ Len(PaymentTypeRows) = 2
    /\ \E j \in 1..Len(FactRows) :
          /\ NotNull(FactRows[j].customer_key)
          /\ NotNull(FactRows[j].product_key)
          /\ FactRows[j].payment_type = Some("credit_card")
          /\ NotNull(FactRows[j].payment_type_key)
          /\ NotNull(FactRows[j].order_date_key)
          /\ LoadedFactRows[j].order_date_key = Some(20160105)

\* the positions, in the declared order, of the segments whose list has the name
ListingPositions(name) ==
    {i \in 1..Len(CategorySegments) : name \in Range(CategorySegments[i][2])}

\* the segment C25 gives a category: the earliest declared segment that
\* lists it, 'Other' when none does
EarliestSegment(name) ==
    IF ListingPositions(name) = {} THEN "Other"
    ELSE CategorySegments[CHOOSE i \in ListingPositions(name) :
                             \A k \in ListingPositions(name) : i <= k][1]

\* C25: _get_category_segment returns the earliest declared segment whose
\* list has the category and 'Other' when no list has it; 'office_furniture',
\* listed by 'Home & Furniture' and by 'Business & Industry', gets
\* 'Home & Furniture'.
C25_FirstSegmentWins ==
    pc = "segment_returned" =>
        /\ ret = Some(EarliestSegment(arg))
        /\ Cardinality(ListingPositions(arg)) > 1 =>
               /\ arg = "office_furniture"
               /\ ListingPositions(arg) = {2, 9}
               /\ ret = Some("Home & Furniture")

C25_Witness ==
    /\ pc = "segment_returned"
    /\ arg = "office_furniture"
    /\ ret = Some("Home & Furniture")

\* C26: every row of the cohort-retention table has a cohort_size, with
\* 1 <= retained_customers <= cohort_size and 0 < retention_rate <= 100;
\* and every order of a customer of the dimension has an order of the same
\* customer, in the same month or an earlier one, whose month is a cohort
\* month with a row at offset 0.
C26_RetainedWithinCohort ==
    Stored("fact_cohort_retention") =>
        /\ \A i \in 1..Len(CohortTable) :
               /\ NotNull(CohortTable[i].cohort_size)
               /\ CohortTable[i].retained_customers >= 1
               /\ CohortTable[i].retained_customers <= Val(CohortTable[i].cohort_size)
               /\ NotNull(CohortTable[i].retention_rate)
               /\ Val(CohortTable[i].retention_rate) > 0
               /\ Val(CohortTable[i].retention_rate) <= 10000
        /\ \A c \in Buyers :
               \A i \in {j \in 1..Len(src.orders) : src.orders[j].customer_id = c} :
                   \E k \in {j \in 1..Len(src.orders) : src.orders[j].customer_id = c} :
                       /\ MonthPeriod(src.orders[k].order_purchase_timestamp)
                             <= MonthPeriod(src.orders[i].order_purchase_timestamp)
                       /\ \E r \in 1..Len(CohortTable) :
                             /\ CohortTable[r].months_since_first_purchase = 0
                             /\ CohortTable[r].cohort_month =
                                   PeriodToDay(MonthPeriod(src.orders[k].order_purchase_timestamp))

\* two customers of a cohort, one of them ordering again later: 50 percent
C26_Witness ==
    /\ Stored("fact_cohort_retention")
    /\ \E i \in 1..Len(CohortTable) :
          /\ CohortTable[i].months_since_first_purchase > 0
          /\ CohortTable[i].cohort_size = Some(2)
          /\ CohortTable[i].retained_customers = 1
          /\ CohortTable[i].retention_rate = Some(5000)

\* the purchase timestamps of the orders of the customer of row i
PurchasesOf(i) ==
    {src.orders[k].order_purchase_timestamp : k \in
        {j \in 1..Len(src.orders) : src.orders[j].customer_id = CustomerRows[i].customer_id}}

\* the rows of customers whose orders all lie within less than 24 hours
WithinOneDay ==
    {i \in WithOrders : \A a \in PurchasesOf(i), b \in PurchasesOf(i) : a - b < 24}

HoursLate(o) == Val(o.order_delivered_customer_date) - o.order_estimated_delivery_date

\* C28: for a delivered order delivery_delay_days is the number of whole
\* 24-hour days of delivered - estimated, rounded down, and is_late_delivery
\* holds exactly when it is > 0: 0 and not late for a delivery less than 24
\* hours after the estimate, -1 for a delivery less than 24 hours before it.
C28_DelayWholeDays ==
    Stored("fact_orders") =>
        \A j \in 1..Len(FactRows) :
            \A o \in OrdersOf(j) :
                NotNull(o.order_delivered_customer_date) =>
                    /\ FactRows[j].delivery_delay_days * 24 <= HoursLate(o)
                    /\ HoursLate(o) < (FactRows[j].delivery_delay_days + 1) * 24
                    /\ FactRows[j].is_late_delivery = (FactRows[j].delivery_delay_days > 0)
                    /\ (HoursLate(o) > 0 /\ HoursLate(o) < 24) =>
                           /\ FactRows[j].delivery_delay_days = 0
                           /\ ~FactRows[j].is_late_delivery
                    /\ (HoursLate(o) < 0 /\ HoursLate(o) > -24) =>
                           FactRows[j].delivery_delay_days = -1

\* an order delivered one hour before its estimated date
C28_Witness ==
    /\ Stored("fact_orders")
    /\ Len(FactRows) = 1
    /\ Len(src.orders) = 1
    /\ NotNull(src.orders[1].order_delivered_customer_date)
    /\ HoursLate(src.orders[1]) = -1
    /\ FactRows[1].delivery_delay_days = -1
    /\ ~FactRows[1].is_late_delivery

\* C29: the phases start in the order schema, dimensions, facts, each only
\* when the one before it returned; the schema phase leaves six empty
\* tables; a phase that raises is the last phase of the run; and when the
\* run returns every table exists and holds only staged rows.
C29_LoadPhasesInOrder ==
    /\ IsPrefix(started, LoadPhases)
    /\ pc \in {"schema", "dimensions", "facts", "summary", "load_done"} => IsNull(err)
    /\ pc = "schema" => started = <<>>
    /\ pc = "dimensions" =>
          /\ started = <<"schema">>
          /\ \A t \in DOMAIN ret : ret[t] = Some({})
    /\ pc = "facts" =>
          /\ started = <<"schema", "dimensions">>
          /\ \A t \in Range(DimensionLoadOrder) : ret[t] = Some({"staged"})
    /\ pc = "load_failed" =>
          /\ started # <<>>
          /\ err = Some(started[Len(started)])
    /\ pc \in {"summary", "load_done"} =>
          /\ started = LoadPhases
          /\ \A t \in DOMAIN ret : NotNull(ret[t]) /\ Val(ret[t]) \subseteq {"staged"}

\* a database that held rows of an earlier load in every table, after a
\* load that returned
C29_Witness ==
    /\ pc = "load_done"
    /\ \A t \in DOMAIN arg : arg[t] = Some({"old"})
    /\ \A t \in DOMAIN ret : ret[t] = Some({"staged"})

\* every use of get_connection returned its connection exactly once, and
\* no connection is checked out between two uses
ReturnedOnce ==
    /\ \A u \in 1..Len(previous) : previous[u].returned = 1 /\ previous[u].out = 0
    /\ pc = "idle" => ret.out = 0
    /\ ret.out \in {0, 1}
    /\ ret.returned <= 1

====
